---------------------------- MODULE Spec2Model ----------------------------
(***************************************************************************)
(* Model of the CamillaDSP engine binary (src/src/bin.rs): the outer loop  *)
(* of main_process, the supervisor run() with its reload / exit / status   *)
(* handlers, and the three workers it spawns.  The workers, config_diff    *)
(* and validate_config live in camillalib, outside src/, and are modelled  *)
(* from the specification text.                                            *)
(*                                                                         *)
(* Left out: StatusMessage::SetSpeed, whose handler only forwards a        *)
(* command to capture that changes nothing the supervisor reads; the       *)
(* status structs other than stop_reason; the contents of chunks.          *)
(*                                                                         *)
(* Grain: a handler is one step up to its first blocking call              *)
(* (barrier.wait(), join()); a worker's loop iteration is one step; a      *)
(* worker's last send and its end are one step; all threads waiting at the *)
(* barrier leave it in the step of the last arrival.  Steps of the         *)
(* supervisor between two blocking calls touch only its locals, the        *)
(* config slots and the sending ends of channels, so the workers are       *)
(* followed only while the supervisor is at a blocking call.               *)
(***************************************************************************)
EXTENDS Integers, Sequences, FiniteSets, TLC

(* ------------------------------------------------------------------ *)
(* Bounds of the model                                                 *)
(* ------------------------------------------------------------------ *)

\* environment events (control plane writes, signals, file edits) in one behaviour
MaxEnv == 1

\* events of the control plane in a behaviour of ReloadSpec
MaxReloads == 2

\* events of the environment in a behaviour of RequestSpec
MaxRequests == 2

\* the loudness filter: samples in a chunk, ramp_time in ms, writes of the
\* shared volume and calls of update_parameters in a behaviour of LoudSpec
MaxChunkSize == 2
MaxRampTime == 3
MaxVolumeChanges == 2
MaxUpdates == 1

(* ------------------------------------------------------------------ *)
(* Program constants                                                    *)
(* ------------------------------------------------------------------ *)

EXIT_BAD_CONFIG == 101
EXIT_PROCESSING_ERROR == 102
EXIT_OK == 0
\* exit status of a Rust process whose main thread panics
EXIT_PANIC == 101
\* parties of Barrier::new(4)
BarrierParties == 4

\* ExitRequest values of signal_exit
ExitRequest_NONE == 0
ExitRequest_EXIT == 1
ExitRequest_STOP == 2

(* ------------------------------------------------------------------ *)
(* Values                                                               *)
(* ------------------------------------------------------------------ *)

\* Option<T>: None is the empty sequence, Some(x) the sequence <<x>>
None == << >>
Some(x) == << x >>
IsSome(o) == o # << >>
Unwrap(o) == o[1]

\* A Configuration: the devices section (which holds queuelimit, here the
\* value of the field), the pipeline steps, the mixers and the filters.
\* filters = 2 stands for a filter section that validation rejects.
Configuration(d, p, m, f) == [devices |-> d, pipeline |-> p, mixers |-> m, filters |-> f]
ConfBase == Configuration(1, 0, 0, 0)
ConfFilters == Configuration(1, 0, 0, 1)
ConfMixers == Configuration(1, 0, 1, 0)
ConfPipeline == Configuration(1, 1, 0, 0)
ConfDevices == Configuration(2, 0, 0, 0)
ConfInvalid == Configuration(1, 0, 0, 2)
ValidConfigs == {ConfBase, ConfFilters, ConfMixers, ConfPipeline, ConfDevices}
Configs == ValidConfigs \cup {ConfInvalid}
\* what load_config can find at the config path: a configuration, or (None) a
\* file that does not parse
FileContents == {Some(ConfBase), Some(ConfDevices), None}

\* the text of an error report: a device that did not open, a device that
\* failed while running; the rate of a format change report
OpenError == "open failed"
IoError == "io failed"
NewRate == "44100"

Workers == {"proc", "pb", "cap"}

\* a queue one slot deeper than the config asks for
queuelimit_OneMore(conf) == conf.devices + 1

\* conf.devices.queuelimit
queuelimit(conf) == conf.devices

\* config::validate_config
validate_config(conf) == conf.filters # 2

\* config::config_diff: the first section that differs decides the class
config_diff(currentconf, newconf) ==
    IF currentconf = newconf THEN "None"
    ELSE IF currentconf.devices # newconf.devices THEN "Devices"
    ELSE IF currentconf.pipeline # newconf.pipeline THEN "Pipeline"
    ELSE IF currentconf.mixers # newconf.mixers THEN "MixerParameters"
    ELSE "FilterParameters"

\* get_new_config: the pending config when there is one, else the file at the
\* config path; <<"Ok", conf>> or <<"Err">>
get_new_config(path, new_conf, file) ==
    IF IsSome(new_conf)
    THEN IF validate_config(Unwrap(new_conf)) THEN <<"Ok", Unwrap(new_conf)>> ELSE <<"Err">>
    ELSE IF path
         THEN IF IsSome(file)
              THEN IF validate_config(Unwrap(file)) THEN <<"Ok", Unwrap(file)>> ELSE <<"Err">>
              ELSE <<"Err">>
         ELSE <<"Err">>

StopReason_None == <<"None">>
StopReason_Done == <<"Done">>
StopReason_UnknownError == <<"UnknownError">>

\* a conversion that files every failure under the capture side
StopReasonOf_CaptureSide(msg) ==
    IF msg[1] \in {"PlaybackError", "CaptureError"}
    THEN <<"CaptureError", msg[2]>>
    ELSE <<"CaptureFormatChange", msg[2]>>

\* the StopReason a failure status message is turned into: the variant of the
\* same side and kind, carrying the message's text or rate
StopReasonOf(msg) ==
    CASE msg[1] = "PlaybackError" -> <<"PlaybackError", msg[2]>>
      [] msg[1] = "CaptureError" -> <<"CaptureError", msg[2]>>
      [] msg[1] = "PlaybackFormatChange" -> <<"PlaybackFormatChange", msg[2]>>
      [] msg[1] = "CaptureFormatChange" -> <<"CaptureFormatChange", msg[2]>>

FailureTypes == {"PlaybackError", "CaptureError", "PlaybackFormatChange", "CaptureFormatChange"}
PlaybackSide == {"PlaybackError", "PlaybackFormatChange"}
CaptureSide == {"CaptureError", "CaptureFormatChange"}

(* ------------------------------------------------------------------ *)
(* The loudness filter: numbers                                         *)
(* ------------------------------------------------------------------ *)

\* An f32 or PrcFmt value is an exact fraction <<numerator, denominator>> in
\* lowest terms with a positive denominator: the arithmetic is the one the
\* code asks for, without the rounding of the floats.  A gain is kept in dB,
\* 10^(x/20) and 20*log10(y) being inverse to each other.
RECURSIVE GCD(_, _)
GCD(a, b) == IF b = 0 THEN a ELSE GCD(b, a % b)

LCM(a, b) == (a \div GCD(a, b)) * b

Abs(n) == IF n < 0 THEN 0 - n ELSE n

Q(n, d) == LET g == GCD(Abs(n), d) IN << n \div g, d \div g >>

QAdd(x, y) ==
    LET l == LCM(x[2], y[2])
    IN  Q(x[1] * (l \div x[2]) + y[1] * (l \div y[2]), l)

QSub(x, y) == QAdd(x, << 0 - y[1], y[2] >>)

QMul(x, y) ==
    LET a == Q(x[1], y[2])
        b == Q(y[1], x[2])
    IN  << a[1] * b[1], a[2] * b[2] >>

\* x * k and x / k for a whole number k (k > 0 in the division)
QMulInt(x, k) == Q(x[1] * k, x[2])
QDivInt(x, k) == Q(x[1], x[2] * k)

QAbs(x) == << Abs(x[1]), x[2] >>

QLess(x, y) ==
    LET l == LCM(x[2], y[2])
    IN  x[1] * (l \div x[2]) < y[1] * (l \div y[2])

QLeq(x, y) == ~QLess(y, x)

\* (a / b).round() for a >= 0, b > 0: halves go away from zero
Round(a, b) == (2 * a + b) \div (2 * b)

(* ------------------------------------------------------------------ *)
(* The loudness filter: loudness.rs                                     *)
(* ------------------------------------------------------------------ *)

\* the relative boost without its limits
get_rel_boost_Unclamped(level, reference) ==
    QDivInt(QSub(reference, level), 20)

get_rel_boost(level, reference) ==
    LET rel_boost == QDivInt(QSub(reference, level), 20)
    IN  IF QLess(rel_boost, Q(0, 1)) THEN Q(0, 1)
        ELSE IF QLess(Q(1, 1), rel_boost) THEN Q(1, 1)
        ELSE rel_boost

\* (ramp_time / (1000.0 * chunksize / samplerate)).round() as usize, for a
\* ramp_time in whole milliseconds
ramp_chunks(ramp_time, chunksize, samplerate) ==
    Round(ramp_time * samplerate, 1000 * chunksize)

\* a Biquad: the gain its shelf coefficients were computed from, and its
\* delay line, which holds what it processed last (nothing when new)
Biquad(gain) == [gain |-> gain, state |-> << >>]

\* Loudness::from_config
from_config(conf, chunksize, samplerate, status) ==
    LET current_volume == status.volume
        relboost == get_rel_boost(current_volume, conf.reference_level)
    IN  [ramptime_in_chunks |-> ramp_chunks(conf.ramp_time, chunksize, samplerate),
         current_volume |-> current_volume,
         ramp_start |-> current_volume,
         target_volume |-> current_volume,
         reference_level |-> conf.reference_level,
         high_boost |-> conf.high_boost,
         low_boost |-> conf.low_boost,
         high_biquad |-> Biquad(QMul(relboost, conf.high_boost)),
         low_biquad |-> Biquad(QMul(relboost, conf.low_boost)),
         ramp_step |-> 0,
         samplerate |-> samplerate,
         chunksize |-> chunksize]

\* make_ramp: the gain in dB of each sample of the chunk, val = i - 1
make_ramp(self) ==
    LET ramprange == QDivInt(QSub(self.target_volume, self.ramp_start),
                             self.ramptime_in_chunks)
        stepsize == QDivInt(ramprange, self.chunksize)
    IN  [i \in 1..self.chunksize |->
            QAdd(QAdd(self.ramp_start, QMulInt(ramprange, self.ramp_step - 1)),
                 QMulInt(stepsize, i - 1))]

\* (shared_vol - self.target_volume).abs() > 0.001
volume_changed(self, shared_vol) ==
    QLess(Q(1, 1000), QAbs(QSub(shared_vol, self.target_volume)))

\* a volume change whose ramp starts at the old target volume
start_ramp_FromTarget(self, shared_vol) ==
    IF volume_changed(self, shared_vol)
    THEN IF self.ramptime_in_chunks > 0
         THEN [self EXCEPT !.ramp_start = self.target_volume,
                           !.target_volume = shared_vol,
                           !.ramp_step = 1]
         ELSE [self EXCEPT !.current_volume = shared_vol,
                           !.target_volume = shared_vol,
                           !.ramp_step = 0]
    ELSE self

\* a volume change that starts a ramp whatever ramptime_in_chunks is
start_ramp_AlwaysRamps(self, shared_vol) ==
    IF volume_changed(self, shared_vol)
    THEN [self EXCEPT !.ramp_start = self.current_volume,
                      !.target_volume = shared_vol,
                      !.ramp_step = 1]
    ELSE self

\* process_waveform, "Volume setting changed"
start_ramp(self, shared_vol) ==
    IF volume_changed(self, shared_vol)
    THEN IF self.ramptime_in_chunks > 0
         THEN [self EXCEPT !.ramp_start = self.current_volume,
                           !.target_volume = shared_vol,
                           !.ramp_step = 1]
         ELSE [self EXCEPT !.current_volume = shared_vol,
                           !.target_volume = shared_vol,
                           !.ramp_step = 0]
    ELSE self

\* the biquads given the coefficients of a level
update_biquads(self, level, reference_level, high_boost, low_boost) ==
    LET relboost == get_rel_boost(level, reference_level)
    IN  [self EXCEPT !.high_biquad.gain = QMul(relboost, high_boost),
                     !.low_biquad.gain = QMul(relboost, low_boost)]

\* a ramp that goes on for one chunk more
apply_gain_OneMore(self) ==
    IF self.ramp_step = 0
    THEN [self |-> self, branch |-> "constant",
          gain |-> [i \in 1..self.chunksize |-> self.current_volume]]
    ELSE LET ramp == make_ramp(self)
             step == self.ramp_step + 1
             last == ramp[Len(ramp)]
             next == [self EXCEPT
                         !.ramp_step = IF step > self.ramptime_in_chunks + 1
                                       THEN 0 ELSE step,
                         !.current_volume = last]
         IN  [self |-> update_biquads(next, last, self.reference_level,
                                      self.high_boost, self.low_boost),
              branch |-> "ramp", gain |-> ramp]

\* process_waveform, "Not in a ramp" and "Ramping": the filter afterwards, the
\* branch taken and the gain in dB each sample was multiplied by.  With
\* ramp_step above ramptime_in_chunks neither branch is taken and the samples
\* stay as they are (0 dB).
apply_gain(self) ==
    IF self.ramp_step = 0
    THEN [self |-> self, branch |-> "constant",
          gain |-> [i \in 1..self.chunksize |-> self.current_volume]]
    ELSE IF self.ramp_step <= self.ramptime_in_chunks
    THEN LET ramp == make_ramp(self)
             step == self.ramp_step + 1
             last == ramp[Len(ramp)]
             next == [self EXCEPT
                         !.ramp_step = IF step > self.ramptime_in_chunks
                                       THEN 0 ELSE step,
                         !.current_volume = last]
         IN  [self |-> update_biquads(next, last, self.reference_level,
                                      self.high_boost, self.low_boost),
              branch |-> "ramp", gain |-> ramp]
    ELSE [self |-> self, branch |-> "none",
          gain |-> [i \in 1..self.chunksize |-> Q(0, 1)]]

\* shelves that are applied at every level
apply_biquads_Always(self, gain) ==
    [self |-> [self EXCEPT !.high_biquad.state = gain,
                           !.low_biquad.state = gain],
     biquads |-> << <<"highshelf", self.high_biquad.gain>>,
                    <<"lowshelf", self.low_biquad.gain>> >>]

\* process_waveform, the shelves: the filter afterwards and the biquads the
\* buffer went through, in order, each with the gain of its coefficients
apply_biquads(self, gain) ==
    IF QLess(Q(0, 1), get_rel_boost(self.current_volume, self.reference_level))
    THEN [self |-> [self EXCEPT !.high_biquad.state = gain,
                                !.low_biquad.state = gain],
          biquads |-> << <<"highshelf", self.high_biquad.gain>>,
                         <<"lowshelf", self.low_biquad.gain>> >>]
    ELSE [self |-> self, biquads |-> << >>]

\* update_parameters with a Loudness config
update_parameters(self, conf, status) ==
    LET current_volume == status.volume
        next == [self EXCEPT
                    !.ramptime_in_chunks =
                        ramp_chunks(conf.ramp_time, self.chunksize, self.samplerate),
                    !.reference_level = conf.reference_level,
                    !.high_boost = conf.high_boost,
                    !.low_boost = conf.low_boost]
    IN  update_biquads(next, current_volume, conf.reference_level,
                       conf.high_boost, conf.low_boost)

\* the values the filter is tried with
Volumes == {Q(0, 1), Q(-10, 1), Q(-10001, 1000), Q(-30, 1)}
ReferenceLevels == {Q(0, 1), Q(-10, 1)}
RampTimes == 0..MaxRampTime
ChunkSizes == 1..MaxChunkSize
SampleRates == {1000, 250}
LoudnessParameters ==
    [reference_level : ReferenceLevels, high_boost : {Q(10, 1)},
     low_boost : {Q(5, 1)}, ramp_time : RampTimes]

\* the buffer before the first call
NoWaveform == [branch |-> "new", gain |-> << >>, biquads |-> << >>]

VARIABLES
    \* main_process
    wait,                  \* --wait given
    config_path,           \* active_config_path is Some
    config_file,           \* what the file at the path holds now
    signal_reload,
    signal_exit,
    active_config_shared,
    new_config_shared,
    prev_config_shared,
    stop_reason,           \* status_structs.status.stop_reason
    exit_code,             \* None while the process lives
    \* run
    sup_pc,
    active_config,
    is_starting,
    pb_ready,
    cap_ready,
    sup_h,                 \* the handler the supervisor is blocked in
    sup_joins,             \* the handles it still has to join
    exitstate,
    \* workers and channels of the current run
    worker_pc,
    chan_cap,              \* tx_cap -> rx_cap
    chan_pb, \* tx_pb -> rx_pb
    chan_status,
    chan_command_cap,
    chan_pipeconf,
    barrier,               \* threads that have called barrier.wait()
    \* history of the current run
    exit_sent,             \* times Exit was sent on tx_command_cap
    joined,                \* handles joined, in order
    barrier_waits,         \* times the supervisor called barrier.wait()
    spawned,               \* the threads of the run in the order of their spawning
    env_left,
    \* the processing thread
    pipeline,              \* the config its Pipeline works with
    processed_with,        \* the config the last chunk was processed with
    \* a Loudness filter
    processing_status,     \* the shared status: its volume
    loudness,              \* the fields of the struct
    loudness_conf,         \* the parameters the filter was given last
    waveform,              \* what the last process_waveform did to its buffer
    ramp_calls,            \* ramping calls since the last volume step
    volume_left,
    update_left

vars == << wait, config_path, config_file, signal_reload, signal_exit,
           active_config_shared, new_config_shared, prev_config_shared,
           stop_reason, exit_code, sup_pc, active_config, is_starting,
           pb_ready, cap_ready, sup_h, sup_joins, exitstate, worker_pc,
           chan_cap, chan_pb, chan_status, chan_command_cap, chan_pipeconf,
           barrier, exit_sent, joined, barrier_waits, env_left, pipeline,
           processed_with, processing_status, loudness, waveform,
           ramp_calls, volume_left, update_left, spawned, loudness_conf >>

engineVars == << wait, config_path, config_file, signal_reload, signal_exit,
                 active_config_shared, new_config_shared, prev_config_shared,
                 stop_reason, exit_code, sup_pc, active_config, is_starting,
                 pb_ready, cap_ready, sup_h, sup_joins, exitstate, worker_pc,
                 chan_cap, chan_pb, chan_status, chan_command_cap,
                 chan_pipeconf, barrier, exit_sent, joined, barrier_waits,
                 env_left, pipeline, processed_with, spawned >>
loudVars == << processing_status, loudness, waveform, ramp_calls, volume_left,
               update_left, loudness_conf >>

mainVars == << wait, config_path >>
slotVars == << active_config_shared, new_config_shared, prev_config_shared >>
signalVars == << signal_reload, signal_exit >>
supLocals == << active_config, is_starting, pb_ready, cap_ready >>
blockVars == << sup_h, sup_joins >>
queueVars == << chan_cap, chan_pb >>
workerVars == << worker_pc, queueVars >>
histVars == << exit_sent, joined, barrier_waits >>
pipeVars == << pipeline, processed_with >>

\* the handler the supervisor is in: its kind, the config it works with and
\* the status message that started it
NoMessage == <<"none">>
NoHandler == [kind |-> "none", conf |-> ConfBase, msg |-> NoMessage]
Handler(k, c, m) == [kind |-> k, conf |-> c, msg |-> m]

(* ------------------------------------------------------------------ *)
(* Init: main_process up to its outer loop                              *)
(* ------------------------------------------------------------------ *)

\* main_process before the loop: a config file given on the command line has
\* passed load_validate_config (or the process has left with 101, which is
\* no state of the engine); without a file --wait is required.
InitEngine ==
    /\ wait \in BOOLEAN
    /\ config_path \in BOOLEAN
    /\ (~config_path => wait)
    /\ config_file \in FileContents
    /\ IF config_path
       THEN config_file = Some(ConfBase)
       ELSE config_file = None
    /\ new_config_shared = IF config_path THEN config_file ELSE None
    /\ signal_reload = FALSE
    /\ signal_exit = ExitRequest_NONE
    /\ active_config_shared = None
    /\ prev_config_shared = None
    /\ stop_reason = StopReason_None
    /\ exit_code = None
    /\ sup_pc = "main"
    /\ active_config = ConfBase
    /\ is_starting = FALSE
    /\ pb_ready = FALSE
    /\ cap_ready = FALSE
    /\ sup_h = NoHandler
    /\ sup_joins = << >>
    /\ exitstate = "none"
    /\ worker_pc = [w \in Workers |-> "none"]
    /\ chan_cap = << >>
    /\ chan_pb = << >>
    /\ chan_status = << >>
    /\ chan_command_cap = << >>
    /\ chan_pipeconf = << >>
    /\ barrier = {}
    /\ exit_sent = 0
    /\ joined = << >>
    /\ barrier_waits = 0
    /\ pipeline = ConfBase
    /\ processed_with = None
    /\ spawned = << >>

\* a filter that nothing is done to
LoudIdle ==
    /\ processing_status = [volume |-> Q(0, 1)]
    /\ loudness_conf = [reference_level |-> Q(0, 1), high_boost |-> Q(10, 1),
                        low_boost |-> Q(5, 1), ramp_time |-> 0]
    /\ loudness = from_config(loudness_conf, 1, 1000, processing_status)
    /\ waveform = NoWaveform
    /\ ramp_calls = None
    /\ volume_left = 0
    /\ update_left = 0

Init == InitEngine /\ env_left = MaxEnv /\ LoudIdle


(* ------------------------------------------------------------------ *)
(* Helpers of the supervisor                                            *)
(* ------------------------------------------------------------------ *)

\* tx_command_cap.send(CommandMessage::Exit): fails, and is only logged, when
\* the capture thread has ended and dropped its receiver
SendExit ==
    /\ chan_command_cap' = IF worker_pc["cap"] = "done"
                           THEN chan_command_cap
                           ELSE Append(chan_command_cap, <<"Exit">>)
    /\ exit_sent' = exit_sent + 1

BarrierOpen == Cardinality(barrier) = BarrierParties

\* barrier.wait() returns in every waiting worker when the last party arrives
Released(pcs) ==
    [w \in Workers |-> IF pcs[w] = "barrier" THEN "running"
                       ELSE IF pcs[w] = "barrier_failed" THEN "done"
                       ELSE pcs[w]]

\* thread t calls barrier.wait(), the workers being at pcs then
Arrive(t, pcs) ==
    /\ barrier' = barrier \cup {t}
    /\ worker_pc' = IF Cardinality(barrier \cup {t}) = BarrierParties
                    THEN Released(pcs) ELSE pcs

\* barrier.wait() called by the supervisor
SupArrive ==
    /\ Arrive("sup", worker_pc)
    /\ barrier_waits' = barrier_waits + 1

\* an exit check that does not look at the starting phase
ExitApplies_AlsoStarting(starting, request) ==
    request \in {ExitRequest_EXIT, ExitRequest_STOP}

\* The loop of run has three parts: the reload check, the exit check and the
\* timed receive.  A check that finds nothing to do changes nothing, so the
\* supervisor is placed at the next part that has something to do; with
\* nothing to do it rests in recv_timeout ("recv").  Only the supervisor reads
\* the two request words, so a request raised while it rests with an empty
\* status channel is placed at the timeout that lets it see the request (the
\* Err(Timeout) arm), and the reload and exit parts run without a worker step
\* in between: every other interleaving differs only in when the request was
\* raised.  A request raised while a message is queued, or while the
\* supervisor is blocked in barrier.wait() or join(), stays pending.
ExitApplies(starting, request) ==
    ~starting /\ request \in {ExitRequest_EXIT, ExitRequest_STOP}

AfterReload(starting, request) ==
    IF ExitApplies(starting, request) THEN "exitchk" ELSE "recv"

AfterRecv(reload, starting, request) ==
    IF reload THEN "reload" ELSE AfterReload(starting, request)

\* return Ok(es)
Return(es) ==
    /\ sup_pc' = "returned"
    /\ exitstate' = es

\* a return path that empties the pending slot also after a Devices reload
Finish_PendingCleared(h) ==
    /\ new_config_shared' = IF h.kind = "EXIT" THEN new_config_shared ELSE None
    /\ prev_config_shared' = IF h.kind = "Devices" THEN prev_config_shared
                             ELSE Some(active_config)
    /\ Return(IF h.kind = "EXIT" THEN "Exit" ELSE "Restart")

\* a return path that answers Restart also to an exit request
Finish_ExitRestarts(h) ==
    /\ new_config_shared' = IF h.kind = "Devices" THEN Some(h.conf)
                            ELSE IF h.kind = "EXIT" THEN new_config_shared
                            ELSE None
    /\ prev_config_shared' = IF h.kind = "Devices" THEN prev_config_shared
                             ELSE Some(active_config)
    /\ Return("Restart")

\* a return path that answers Exit also to a stop request
Finish_StopExits(h) ==
    /\ new_config_shared' = IF h.kind = "Devices" THEN Some(h.conf)
                            ELSE IF h.kind = "EXIT" THEN new_config_shared
                            ELSE None
    /\ prev_config_shared' = IF h.kind = "Devices" THEN prev_config_shared
                             ELSE Some(active_config)
    /\ Return(IF h.kind \in {"EXIT", "STOP"} THEN "Exit" ELSE "Restart")

\* the statements that follow the last join of a handler, up to its return
Finish(h) ==
    /\ new_config_shared' = IF h.kind = "Devices" THEN Some(h.conf)
                            ELSE IF h.kind = "EXIT" THEN new_config_shared
                            ELSE None
    /\ prev_config_shared' = IF h.kind = "Devices" THEN prev_config_shared
                             ELSE Some(active_config)
    /\ Return(IF h.kind = "EXIT" THEN "Exit" ELSE "Restart")

(* ------------------------------------------------------------------ *)
(* main_process: the outer loop                                         *)
(* ------------------------------------------------------------------ *)

\* a start of run that leaves the two request words as it finds them
RunEnter_SignalsKept ==
    /\ sup_pc = "main"
    /\ IsSome(new_config_shared)
    /\ is_starting' = TRUE
    /\ active_config' = Unwrap(new_config_shared)
    /\ active_config_shared' = Some(Unwrap(new_config_shared))
    /\ new_config_shared' = None
    /\ UNCHANGED << signal_reload, signal_exit >>
    /\ worker_pc' = [w \in Workers |-> "init"]
    /\ chan_cap' = << >>
    /\ chan_pb' = << >>
    /\ chan_status' = << >>
    /\ chan_command_cap' = << >>
    /\ chan_pipeconf' = << >>
    /\ barrier' = {}
    /\ pb_ready' = FALSE
    /\ cap_ready' = FALSE
    /\ sup_h' = NoHandler
    /\ sup_joins' = << >>
    /\ exit_sent' = 0
    /\ joined' = << >>
    /\ barrier_waits' = 0
    /\ pipeline' = Unwrap(new_config_shared)
    /\ processed_with' = None
    /\ spawned' = << "proc", "pb", "cap" >>
    /\ UNCHANGED << mainVars, loudVars, config_file, prev_config_shared, stop_reason,
                    exit_code, env_left >>

\* run(), from its entry to the registration of the signal handlers: the
\* pending config becomes the active one, the channels and the barrier are
\* made and the three workers spawned.  (The branch of run for an empty
\* pending slot is dead: the caller has just found the slot filled and only
\* the supervisor empties it.)
RunEnter ==
    /\ sup_pc = "main"
    /\ IsSome(new_config_shared)
    /\ is_starting' = TRUE
    /\ active_config' = Unwrap(new_config_shared)
    /\ active_config_shared' = Some(Unwrap(new_config_shared))
    /\ new_config_shared' = None
    /\ signal_reload' = FALSE
    /\ signal_exit' = ExitRequest_NONE
    /\ worker_pc' = [w \in Workers |-> "init"]
    /\ chan_cap' = << >>
    /\ chan_pb' = << >>
    /\ chan_status' = << >>
    /\ chan_command_cap' = << >>
    /\ chan_pipeconf' = << >>
    /\ barrier' = {}
    /\ pb_ready' = FALSE
    /\ cap_ready' = FALSE
    /\ sup_h' = NoHandler
    /\ sup_joins' = << >>
    /\ exit_sent' = 0
    /\ joined' = << >>
    /\ barrier_waits' = 0
    /\ pipeline' = Unwrap(new_config_shared)
    /\ processed_with' = None
    /\ spawned' = << "proc", "pb", "cap" >>
    /\ UNCHANGED << mainVars, loudVars, config_file, prev_config_shared, stop_reason,
                    exit_code, env_left >>

\* run() up to the top of the supervisor loop
RunStart ==
    /\ RunEnter
    /\ exitstate' = "none"
    /\ sup_pc' = "recv"

\* signal_hook::flag::register(..)? fails: run returns Err with its workers
\* spawned and left behind
RunRegisterFailed ==
    /\ RunEnter
    /\ Return("Err")

\* an outer loop that gives up on an empty pending slot in wait mode too
MainNoConfig_AnyMode ==
    /\ sup_pc = "main"
    /\ ~IsSome(new_config_shared)
    /\ sup_pc' = "terminated"
    /\ exit_code' = Some(EXIT_OK)
    /\ UNCHANGED << mainVars, loudVars, spawned, pipeVars, config_file, signalVars, slotVars, stop_reason,
                    supLocals, blockVars, exitstate, workerVars, chan_status,
                    chan_command_cap, chan_pipeconf, barrier, histVars, env_left >>

\* while new_config.is_none(): not in wait mode
MainNoConfig ==
    /\ sup_pc = "main"
    /\ ~IsSome(new_config_shared)
    /\ ~wait
    /\ sup_pc' = "terminated"
    /\ exit_code' = Some(EXIT_OK)
    /\ UNCHANGED << mainVars, loudVars, spawned, pipeVars, config_file, signalVars, slotVars, stop_reason,
                    supLocals, blockVars, exitstate, workerVars, chan_status,
                    chan_command_cap, chan_pipeconf, barrier, histVars, env_left >>

\* while new_config.is_none(): wait mode, exit requested
MainExitRequested ==
    /\ sup_pc = "main"
    /\ ~IsSome(new_config_shared)
    /\ wait
    /\ signal_exit = ExitRequest_EXIT
    /\ sup_pc' = "terminated"
    /\ exit_code' = Some(EXIT_OK)
    /\ UNCHANGED << mainVars, loudVars, spawned, pipeVars, config_file, signalVars, slotVars, stop_reason,
                    supLocals, blockVars, exitstate, workerVars, chan_status,
                    chan_command_cap, chan_pipeconf, barrier, histVars, env_left >>

\* while new_config.is_none(): wait mode, reload requested
MainReload ==
    /\ sup_pc = "main"
    /\ ~IsSome(new_config_shared)
    /\ wait
    /\ signal_exit # ExitRequest_EXIT
    /\ signal_reload
    /\ signal_reload' = FALSE
    /\ LET conf_loaded == get_new_config(config_path, new_config_shared, config_file)
       IN  new_config_shared' = IF conf_loaded[1] = "Ok" THEN Some(conf_loaded[2])
                                ELSE new_config_shared
    /\ UNCHANGED << mainVars, loudVars, spawned, pipeVars, config_file, signal_exit, active_config_shared,
                    prev_config_shared, stop_reason, exit_code, sup_pc,
                    supLocals, blockVars, exitstate, workerVars, chan_status,
                    chan_command_cap, chan_pipeconf, barrier, histVars, env_left >>

\* match exitstatus: Err(e)
MainErr ==
    /\ sup_pc = "returned"
    /\ exitstate = "Err"
    /\ active_config_shared' = None
    /\ IF wait
       THEN /\ sup_pc' = "main"
            /\ UNCHANGED exit_code
       ELSE /\ sup_pc' = "terminated"
            /\ exit_code' = Some(EXIT_PROCESSING_ERROR)
    /\ UNCHANGED << mainVars, loudVars, spawned, pipeVars, config_file, signalVars, new_config_shared,
                    prev_config_shared, stop_reason, supLocals, blockVars,
                    exitstate, workerVars, chan_status, chan_command_cap,
                    chan_pipeconf, barrier, histVars, env_left >>

\* match exitstatus: Ok(ExitState::Exit)
MainExit ==
    /\ sup_pc = "returned"
    /\ exitstate = "Exit"
    /\ active_config_shared' = None
    /\ sup_pc' = "terminated"
    /\ exit_code' = Some(EXIT_OK)
    /\ UNCHANGED << mainVars, loudVars, spawned, pipeVars, config_file, signalVars, new_config_shared,
                    prev_config_shared, stop_reason, supLocals, blockVars,
                    exitstate, workerVars, chan_status, chan_command_cap,
                    chan_pipeconf, barrier, histVars, env_left >>

\* a Restart arm that leaves the active-config slot as run left it
MainRestart_SlotKept ==
    /\ sup_pc = "returned"
    /\ exitstate = "Restart"
    /\ sup_pc' = "main"
    /\ UNCHANGED << mainVars, loudVars, spawned, pipeVars, config_file, signalVars, slotVars, stop_reason,
                    exit_code, supLocals, blockVars, exitstate, workerVars,
                    chan_status, chan_command_cap, chan_pipeconf, barrier,
                    histVars, env_left >>

\* match exitstatus: Ok(ExitState::Restart)
MainRestart ==
    /\ sup_pc = "returned"
    /\ exitstate = "Restart"
    /\ active_config_shared' = None
    /\ sup_pc' = "main"
    /\ UNCHANGED << mainVars, loudVars, spawned, pipeVars, config_file, signalVars, new_config_shared,
                    prev_config_shared, stop_reason, exit_code, supLocals,
                    blockVars, exitstate, workerVars, chan_status,
                    chan_command_cap, chan_pipeconf, barrier, histVars, env_left >>

(* ------------------------------------------------------------------ *)
(* run: the supervisor loop, reload part                                *)
(* ------------------------------------------------------------------ *)

\* what the reload at the top of the loop would load now
NewConfig == get_new_config(config_path, new_config_shared, config_file)

\* reload: get_new_config returned Err
SupReloadErr ==
    /\ sup_pc = "reload"
    /\ signal_reload
    /\ NewConfig[1] = "Err"
    /\ signal_reload' = FALSE
    /\ sup_pc' = AfterReload(is_starting, signal_exit)
    /\ UNCHANGED << mainVars, loudVars, spawned, pipeVars, config_file, signal_exit, slotVars, stop_reason,
                    exit_code, supLocals, blockVars, exitstate, workerVars,
                    chan_status, chan_command_cap, chan_pipeconf, barrier,
                    histVars, env_left >>

\* a parameter arm that sends the config it is about to replace
SupReloadParams_SendsOld ==
    /\ sup_pc = "reload"
    /\ signal_reload
    /\ NewConfig[1] = "Ok"
    /\ LET conf == NewConfig[2]
           comp == config_diff(active_config, conf)
       IN  /\ comp \in {"Pipeline", "MixerParameters", "FilterParameters"}
           /\ signal_reload' = FALSE
           /\ IF worker_pc["proc"] = "done"
              THEN /\ sup_pc' = "terminated"
                   /\ exit_code' = Some(EXIT_PANIC)
                   /\ UNCHANGED << chan_pipeconf, active_config, slotVars >>
              ELSE /\ chan_pipeconf' = Append(chan_pipeconf, <<comp, active_config>>)
                   /\ active_config' = conf
                   /\ active_config_shared' = Some(conf)
                   /\ new_config_shared' = None
                   /\ sup_pc' = AfterReload(is_starting, signal_exit)
                   /\ UNCHANGED << exit_code, prev_config_shared >>
    /\ UNCHANGED << mainVars, loudVars, spawned, pipeVars, config_file, signal_exit, stop_reason,
                    is_starting, pb_ready, cap_ready, blockVars, exitstate,
                    workerVars, chan_status, chan_command_cap, barrier,
                    histVars, env_left >>

\* reload: ConfigChange::Pipeline | MixerParameters | FilterParameters.
\* tx_pipeconf.send(..).unwrap() panics when the processing thread has ended
\* and dropped rx_pipeconf: the main thread dies and the process with it.
SupReloadParams ==
    /\ sup_pc = "reload"
    /\ signal_reload
    /\ NewConfig[1] = "Ok"
    /\ LET conf == NewConfig[2]
           comp == config_diff(active_config, conf)
       IN  /\ comp \in {"Pipeline", "MixerParameters", "FilterParameters"}
           /\ signal_reload' = FALSE
           /\ IF worker_pc["proc"] = "done"
              THEN /\ sup_pc' = "terminated"
                   /\ exit_code' = Some(EXIT_PANIC)
                   /\ UNCHANGED << chan_pipeconf, active_config, slotVars >>
              ELSE /\ chan_pipeconf' = Append(chan_pipeconf, <<comp, conf>>)
                   /\ active_config' = conf
                   /\ active_config_shared' = Some(conf)
                   /\ new_config_shared' = None
                   /\ sup_pc' = AfterReload(is_starting, signal_exit)
                   /\ UNCHANGED << exit_code, prev_config_shared >>
    /\ UNCHANGED << mainVars, loudVars, spawned, pipeVars, config_file, signal_exit, stop_reason,
                    is_starting, pb_ready, cap_ready, blockVars, exitstate,
                    workerVars, chan_status, chan_command_cap, barrier,
                    histVars, env_left >>

\* a Devices arm that applies the change to the running workers
SupReloadDevices_AppliedLive ==
    /\ sup_pc = "reload"
    /\ signal_reload
    /\ NewConfig[1] = "Ok"
    /\ config_diff(active_config, NewConfig[2]) = "Devices"
    /\ signal_reload' = FALSE
    /\ chan_pipeconf' = Append(chan_pipeconf, <<"Devices", NewConfig[2]>>)
    /\ active_config' = NewConfig[2]
    /\ active_config_shared' = Some(NewConfig[2])
    /\ new_config_shared' = None
    /\ sup_pc' = AfterReload(is_starting, signal_exit)
    /\ UNCHANGED << mainVars, loudVars, spawned, pipeVars, config_file, signal_exit, prev_config_shared,
                    stop_reason, exit_code, is_starting, pb_ready, cap_ready,
                    blockVars, exitstate, workerVars, chan_status,
                    chan_command_cap, barrier, histVars, env_left >>

\* reload: ConfigChange::Devices, up to the first join
SupReloadDevices ==
    /\ sup_pc = "reload"
    /\ signal_reload
    /\ NewConfig[1] = "Ok"
    /\ config_diff(active_config, NewConfig[2]) = "Devices"
    /\ signal_reload' = FALSE
    /\ SendExit
    /\ sup_h' = Handler("Devices", NewConfig[2], NoMessage)
    /\ sup_joins' = << "pb", "cap" >>
    /\ sup_pc' = "join"
    /\ UNCHANGED << mainVars, loudVars, spawned, pipeVars, config_file, signal_exit, slotVars, stop_reason,
                    exit_code, supLocals, exitstate, workerVars, chan_status,
                    chan_pipeconf, barrier, joined, barrier_waits, env_left >>

\* a None arm that leaves the pending slot as it finds it
SupReloadNone_PendingKept ==
    /\ sup_pc = "reload"
    /\ signal_reload
    /\ NewConfig[1] = "Ok"
    /\ config_diff(active_config, NewConfig[2]) = "None"
    /\ signal_reload' = FALSE
    /\ sup_pc' = AfterReload(is_starting, signal_exit)
    /\ UNCHANGED << mainVars, loudVars, spawned, pipeVars, config_file, signal_exit, slotVars,
                    stop_reason, exit_code, supLocals,
                    blockVars, exitstate, workerVars, chan_status,
                    chan_command_cap, chan_pipeconf, barrier, histVars, env_left >>

\* reload: ConfigChange::None
SupReloadNone ==
    /\ sup_pc = "reload"
    /\ signal_reload
    /\ NewConfig[1] = "Ok"
    /\ config_diff(active_config, NewConfig[2]) = "None"
    /\ signal_reload' = FALSE
    /\ new_config_shared' = None
    /\ sup_pc' = AfterReload(is_starting, signal_exit)
    /\ UNCHANGED << mainVars, loudVars, spawned, pipeVars, config_file, signal_exit, active_config_shared,
                    prev_config_shared, stop_reason, exit_code, supLocals,
                    blockVars, exitstate, workerVars, chan_status,
                    chan_command_cap, chan_pipeconf, barrier, histVars, env_left >>

(* ------------------------------------------------------------------ *)
(* run: the supervisor loop, exit part                                  *)
(* ------------------------------------------------------------------ *)

\* ExitRequest::EXIT, up to the first join
SupExitRequested ==
    /\ sup_pc = "exitchk"
    /\ ~is_starting
    /\ signal_exit = ExitRequest_EXIT
    /\ signal_exit' = ExitRequest_NONE
    /\ SendExit
    /\ sup_h' = Handler("EXIT", active_config, NoMessage)
    /\ sup_joins' = << "pb", "cap" >>
    /\ sup_pc' = "join"
    /\ UNCHANGED << mainVars, loudVars, spawned, pipeVars, config_file, signal_reload, slotVars, stop_reason,
                    exit_code, supLocals, exitstate, workerVars, chan_status,
                    chan_pipeconf, barrier, joined, barrier_waits, env_left >>

\* ExitRequest::STOP, up to the first join
SupStopRequested ==
    /\ sup_pc = "exitchk"
    /\ ~is_starting
    /\ signal_exit = ExitRequest_STOP
    /\ signal_exit' = ExitRequest_NONE
    /\ SendExit
    /\ sup_h' = Handler("STOP", active_config, NoMessage)
    /\ sup_joins' = << "pb", "cap" >>
    /\ sup_pc' = "join"
    /\ UNCHANGED << mainVars, loudVars, spawned, pipeVars, config_file, signal_reload, slotVars, stop_reason,
                    exit_code, supLocals, exitstate, workerVars, chan_status,
                    chan_pipeconf, barrier, joined, barrier_waits, env_left >>

\* handle.join(): returns once the thread has ended.  After the last join of
\* a handler its remaining statements run and run returns.
SupJoin ==
    /\ sup_pc = "join"
    /\ worker_pc[Head(sup_joins)] = "done"
    /\ joined' = Append(joined, Head(sup_joins))
    /\ sup_joins' = Tail(sup_joins)
    /\ IF Len(sup_joins) > 1
       THEN UNCHANGED << sup_pc, exitstate, new_config_shared, prev_config_shared >>
       ELSE Finish(sup_h)
    /\ UNCHANGED << mainVars, loudVars, spawned, pipeVars, config_file, signalVars, active_config_shared,
                    stop_reason, exit_code, supLocals, sup_h, workerVars,
                    chan_status, chan_command_cap, chan_pipeconf, barrier,
                    exit_sent, barrier_waits, env_left >>

(* ------------------------------------------------------------------ *)
(* run: the supervisor loop, status messages                            *)
(* ------------------------------------------------------------------ *)

\* both tx_status clones are dropped: the playback and capture threads ended
StatusDisconnected == worker_pc["pb"] = "done" /\ worker_pc["cap"] = "done"

\* rx_status.recv_timeout(delay): Err(Disconnected)
SupDisconnected ==
    /\ sup_pc = "recv"
    /\ chan_status = << >>
    /\ StatusDisconnected
    /\ stop_reason' = StopReason_UnknownError
    /\ Return("Restart")
    /\ sup_h' = Handler("Disconnected", active_config, NoMessage)
    /\ UNCHANGED << mainVars, loudVars, spawned, pipeVars, config_file, signalVars, slotVars, exit_code,
                    supLocals, sup_joins, workerVars, chan_status,
                    chan_command_cap, chan_pipeconf, barrier, histVars, env_left >>

\* StatusMessage::PlaybackReady, up to barrier.wait()
SupPlaybackReady ==
    /\ sup_pc = "recv"
    /\ chan_status # << >>
    /\ Head(chan_status)[1] = "PlaybackReady"
    /\ chan_status' = Tail(chan_status)
    /\ pb_ready' = TRUE
    /\ IF cap_ready
       THEN /\ SupArrive
            /\ sup_h' = Handler("PlaybackReady", active_config, Head(chan_status))
            /\ sup_pc' = "barrier"
       ELSE /\ sup_pc' = AfterRecv(signal_reload, is_starting, signal_exit)
            /\ UNCHANGED << sup_h, barrier, barrier_waits, worker_pc >>
    /\ UNCHANGED << mainVars, loudVars, spawned, pipeVars, config_file, signalVars, slotVars, stop_reason,
                    exit_code, active_config, is_starting, cap_ready, sup_joins,
                    exitstate, queueVars, chan_command_cap, chan_pipeconf,
                    exit_sent, joined, env_left >>

\* StatusMessage::CaptureReady, up to barrier.wait()
SupCaptureReady ==
    /\ sup_pc = "recv"
    /\ chan_status # << >>
    /\ Head(chan_status)[1] = "CaptureReady"
    /\ chan_status' = Tail(chan_status)
    /\ cap_ready' = TRUE
    /\ IF pb_ready
       THEN /\ SupArrive
            /\ sup_h' = Handler("CaptureReady", active_config, Head(chan_status))
            /\ sup_pc' = "barrier"
       ELSE /\ sup_pc' = AfterRecv(signal_reload, is_starting, signal_exit)
            /\ UNCHANGED << sup_h, barrier, barrier_waits, worker_pc >>
    /\ UNCHANGED << mainVars, loudVars, spawned, pipeVars, config_file, signalVars, slotVars, stop_reason,
                    exit_code, active_config, is_starting, pb_ready, sup_joins,
                    exitstate, queueVars, chan_command_cap, chan_pipeconf,
                    exit_sent, joined, env_left >>

\* the rest of the PlaybackReady branch, once the barrier has opened
SupPlaybackReadyReleased ==
    /\ sup_pc = "barrier"
    /\ sup_h.kind = "PlaybackReady"
    /\ BarrierOpen
    /\ is_starting' = FALSE
    /\ sup_pc' = AfterRecv(signal_reload, FALSE, signal_exit)
    /\ UNCHANGED << mainVars, loudVars, spawned, pipeVars, config_file, signalVars, slotVars, stop_reason,
                    exit_code, active_config, pb_ready, cap_ready, blockVars,
                    exitstate, workerVars, chan_status, chan_command_cap,
                    chan_pipeconf, barrier, histVars, env_left >>

\* the rest of the CaptureReady branch, once the barrier has opened
SupCaptureReadyReleased ==
    /\ sup_pc = "barrier"
    /\ sup_h.kind = "CaptureReady"
    /\ BarrierOpen
    /\ is_starting' = FALSE
    /\ stop_reason' = StopReason_None
    /\ sup_pc' = AfterRecv(signal_reload, FALSE, signal_exit)
    /\ UNCHANGED << mainVars, loudVars, spawned, pipeVars, config_file, signalVars, slotVars, exit_code,
                    active_config, pb_ready, cap_ready, blockVars, exitstate,
                    workerVars, chan_status, chan_command_cap, chan_pipeconf,
                    barrier, histVars, env_left >>

\* the worker a failure handler joins: the peer of the side that reported
PeerOf(type) == IF type \in PlaybackSide THEN "cap" ELSE "pb"

\* StatusMessage::PlaybackError | CaptureError | PlaybackFormatChange |
\* CaptureFormatChange, up to the first blocking call (barrier.wait() while
\* starting, else the join): tellsCapture says whether the branch sends Exit
\* to capture, releases whether it waits on the barrier
SupFailureBranch(type, tellsCapture, releases) ==
    /\ sup_pc = "recv"
    /\ chan_status # << >>
    /\ Head(chan_status)[1] = type
    /\ chan_status' = Tail(chan_status)
    /\ IF tellsCapture
       THEN SendExit
       ELSE UNCHANGED << chan_command_cap, exit_sent >>
    /\ sup_h' = Handler("Failure", active_config, Head(chan_status))
    /\ sup_joins' = << PeerOf(type) >>
    /\ IF releases
       THEN /\ SupArrive
            /\ sup_pc' = "barrier"
            /\ UNCHANGED stop_reason
       ELSE /\ stop_reason' = StopReasonOf(Head(chan_status))
            /\ sup_pc' = "join"
            /\ UNCHANGED << barrier, barrier_waits, worker_pc >>
    /\ UNCHANGED << mainVars, loudVars, spawned, pipeVars, config_file, signalVars, slotVars, exit_code,
                    supLocals, exitstate, queueVars, chan_pipeconf, joined,
                    env_left >>

\* a failure branch that does not tell capture to exit
SupFailure_NoExit(type) == SupFailureBranch(type, FALSE, is_starting)

\* a failure branch that goes to the join without releasing the barrier
SupFailure_NoBarrier(type) == SupFailureBranch(type, type \in PlaybackSide, FALSE)

\* the playback-side branches send Exit to capture; every branch waits on the
\* barrier when the run is still starting
SupFailure(type) == SupFailureBranch(type, type \in PlaybackSide, is_starting)

SupPlaybackError == SupFailure("PlaybackError")
SupCaptureError == SupFailure("CaptureError")
SupPlaybackFormatChange == SupFailure("PlaybackFormatChange")
SupCaptureFormatChange == SupFailure("CaptureFormatChange")

\* the rest of a failure branch entered while starting, once the barrier has
\* opened, up to the join
SupFailureReleased ==
    /\ sup_pc = "barrier"
    /\ sup_h.kind = "Failure"
    /\ BarrierOpen
    /\ stop_reason' = StopReasonOf(sup_h.msg)
    /\ sup_pc' = "join"
    /\ UNCHANGED << mainVars, loudVars, spawned, pipeVars, config_file, signalVars, slotVars, exit_code,
                    supLocals, blockVars, exitstate, workerVars, chan_status,
                    chan_command_cap, chan_pipeconf, barrier, histVars, env_left >>

\* StatusMessage::PlaybackDone
SupPlaybackDone ==
    /\ sup_pc = "recv"
    /\ chan_status # << >>
    /\ Head(chan_status)[1] = "PlaybackDone"
    /\ chan_status' = Tail(chan_status)
    /\ stop_reason' = IF stop_reason = StopReason_None THEN StopReason_Done
                      ELSE stop_reason
    /\ prev_config_shared' = Some(active_config)
    /\ sup_h' = Handler("PlaybackDone", active_config, Head(chan_status))
    /\ Return("Restart")
    /\ UNCHANGED << mainVars, loudVars, spawned, pipeVars, config_file, signalVars, active_config_shared,
                    new_config_shared, exit_code, supLocals, sup_joins,
                    workerVars, chan_command_cap, chan_pipeconf, barrier,
                    histVars, env_left >>

\* StatusMessage::CaptureDone
SupCaptureDone ==
    /\ sup_pc = "recv"
    /\ chan_status # << >>
    /\ Head(chan_status)[1] = "CaptureDone"
    /\ chan_status' = Tail(chan_status)
    /\ sup_pc' = AfterRecv(signal_reload, is_starting, signal_exit)
    /\ UNCHANGED << mainVars, loudVars, spawned, pipeVars, config_file, signalVars, slotVars, stop_reason,
                    exit_code, supLocals, blockVars, exitstate, workerVars,
                    chan_command_cap, chan_pipeconf, barrier, histVars, env_left >>

(* ------------------------------------------------------------------ *)
(* The workers (camillalib: audiodevice, processing)                    *)
(* ------------------------------------------------------------------ *)
\* A worker thread is at "init" (acquiring its device, building the
\* pipeline), "barrier" or "barrier_failed" (inside barrier.wait()),
\* "running", "eos" (capture: about to send the end-of-stream marker) or
\* "done" (ended, its channel ends dropped).  A worker that fails reports before it ends; one
\* that finds its queue disconnected just ends.

procFrame == << mainVars, loudVars, spawned, config_file, signalVars, slotVars, stop_reason,
                exit_code, sup_pc, supLocals, blockVars, exitstate,
                histVars, env_left >>

workerFrame == << procFrame, pipeVars >>

\* the workers of a run are followed while the supervisor is inside its loop
\* at a blocking call; once run has returned they can reach nothing the
\* engine still uses (their channels are dropped)
WorkersRun == sup_pc \in {"recv", "barrier", "join"}

\* a worker's device came up: it reports ready and waits at the barrier
WorkerReady(w, msg) ==
    /\ WorkersRun
    /\ worker_pc[w] = "init"
    /\ chan_status' = Append(chan_status, <<msg>>)
    /\ Arrive(w, [worker_pc EXCEPT ![w] = "barrier"])
    /\ UNCHANGED << workerFrame, chan_cap, chan_pb, chan_command_cap, chan_pipeconf >>

\* a worker's device did not come up: it reports the error and still waits at
\* the barrier, then ends
WorkerStartFailed(w, msg) ==
    /\ WorkersRun
    /\ worker_pc[w] = "init"
    /\ chan_status' = Append(chan_status, <<msg, OpenError>>)
    /\ Arrive(w, [worker_pc EXCEPT ![w] = "barrier_failed"])
    /\ UNCHANGED << workerFrame, chan_cap, chan_pb, chan_command_cap, chan_pipeconf >>

PlaybackReady == WorkerReady("pb", "PlaybackReady")
CaptureReady == WorkerReady("cap", "CaptureReady")
PlaybackStartFailed == WorkerStartFailed("pb", "PlaybackError")
CaptureStartFailed == WorkerStartFailed("cap", "CaptureError")

\* the processing worker has built its pipeline and waits at the barrier
ProcessingBuilt ==
    /\ WorkersRun
    /\ worker_pc["proc"] = "init"
    /\ Arrive("proc", [worker_pc EXCEPT !["proc"] = "barrier"])
    /\ UNCHANGED << workerFrame, chan_cap, chan_pb, chan_status, chan_command_cap, chan_pipeconf >>

\* a running device fails or changes its format: the worker reports and ends
WorkerFailed(w, msg, arg) ==
    /\ WorkersRun
    /\ worker_pc[w] = "running"
    /\ chan_status' = Append(chan_status, <<msg, arg>>)
    /\ worker_pc' = [worker_pc EXCEPT ![w] = "done"]
    /\ UNCHANGED << workerFrame, chan_cap, chan_pb, chan_command_cap, chan_pipeconf, barrier >>

PlaybackFailed == WorkerFailed("pb", "PlaybackError", IoError)
CaptureFailed == WorkerFailed("cap", "CaptureError", IoError)
PlaybackFormatChanged == WorkerFailed("pb", "PlaybackFormatChange", NewRate)
CaptureFormatChanged == WorkerFailed("cap", "CaptureFormatChange", NewRate)

\* capture, between chunks: a command is waiting.  Exit ends the stream,
\* SetSpeed adjusts the resampler.
CaptureCommand ==
    /\ WorkersRun
    /\ worker_pc["cap"] = "running"
    /\ chan_command_cap # << >>
    /\ chan_command_cap' = Tail(chan_command_cap)
    /\ worker_pc' = IF Head(chan_command_cap)[1] = "Exit"
                    THEN [worker_pc EXCEPT !["cap"] = "eos"]
                    ELSE worker_pc
    /\ UNCHANGED << workerFrame, chan_cap, chan_pb, chan_status, chan_pipeconf, barrier >>

\* capture: no command waiting, one chunk read and sent (blocking send on the
\* bounded queue).  With the receiver gone the send fails and capture ends.
CaptureChunk ==
    /\ WorkersRun
    /\ worker_pc["cap"] = "running"
    /\ chan_command_cap = << >>
    /\ IF worker_pc["proc"] = "done"
       THEN /\ worker_pc' = [worker_pc EXCEPT !["cap"] = "done"]
            /\ UNCHANGED << chan_cap, chan_status >>
       ELSE /\ Len(chan_cap) < queuelimit(active_config)
            /\ chan_cap' = Append(chan_cap, "chunk")
            /\ UNCHANGED << chan_status, worker_pc >>
    /\ UNCHANGED << workerFrame, chan_pb,
                    chan_command_cap, chan_pipeconf, barrier >>

\* capture: the thread ends without reporting
CaptureDied ==
    /\ WorkersRun
    /\ worker_pc["cap"] = "running"
    /\ worker_pc' = [worker_pc EXCEPT !["cap"] = "done"]
    /\ UNCHANGED << workerFrame, chan_cap, chan_pb, chan_status, chan_command_cap, chan_pipeconf,
                    barrier >>

\* capture: the input ends by itself
CaptureEndOfInput ==
    /\ WorkersRun
    /\ worker_pc["cap"] = "running"
    /\ chan_command_cap = << >>
    /\ worker_pc' = [worker_pc EXCEPT !["cap"] = "eos"]
    /\ UNCHANGED << workerFrame, chan_cap, chan_pb, chan_status, chan_command_cap, chan_pipeconf,
                    barrier >>

\* capture: end-of-stream marker sent downstream, CaptureDone reported
CaptureDone ==
    /\ WorkersRun
    /\ worker_pc["cap"] = "eos"
    /\ worker_pc["proc"] = "done" \/ Len(chan_cap) < queuelimit(active_config)
    /\ chan_cap' = IF worker_pc["proc"] = "done" THEN chan_cap
                   ELSE Append(chan_cap, "EOS")
    /\ chan_status' = Append(chan_status, <<"CaptureDone">>)
    /\ worker_pc' = [worker_pc EXCEPT !["cap"] = "done"]
    /\ UNCHANGED << workerFrame, chan_pb,
                    chan_command_cap, chan_pipeconf, barrier >>

\* processing, one iteration: blocking receive on the capture queue, the
\* pipeline applied, blocking send on the playback queue, then the poll of
\* the pipeconfig channel (one message at most, at the chunk boundary).  The
\* end-of-stream marker is passed on and ends the worker; so does a failed
\* send (playback gone) or a failed receive (capture gone, queue drained).
ProcessingChunk ==
    /\ WorkersRun
    /\ worker_pc["proc"] = "running"
    /\ IF chan_cap = << >>
       THEN /\ worker_pc["cap"] = "done"
            /\ worker_pc' = [worker_pc EXCEPT !["proc"] = "done"]
            /\ UNCHANGED << chan_cap, chan_pb, chan_pipeconf, pipeVars >>
       ELSE /\ worker_pc["pb"] = "done" \/ Len(chan_pb) < queuelimit(active_config)
            /\ chan_cap' = Tail(chan_cap)
            /\ chan_pb' = IF worker_pc["pb"] = "done" THEN chan_pb
                          ELSE Append(chan_pb, Head(chan_cap))
            /\ processed_with' = IF Head(chan_cap) = "EOS" THEN processed_with
                                 ELSE Some(pipeline)
            /\ IF worker_pc["pb"] = "done" \/ Head(chan_cap) = "EOS"
               THEN /\ worker_pc' = [worker_pc EXCEPT !["proc"] = "done"]
                    /\ UNCHANGED << chan_pipeconf, pipeline >>
               ELSE /\ chan_pipeconf' = IF chan_pipeconf = << >> THEN chan_pipeconf
                                        ELSE Tail(chan_pipeconf)
                    /\ pipeline' = IF chan_pipeconf = << >> THEN pipeline
                                   ELSE Head(chan_pipeconf)[2]
                    /\ UNCHANGED worker_pc
    /\ UNCHANGED << procFrame, chan_status, chan_command_cap, barrier >>

\* playback: one message taken from the playback queue; a chunk is written
\* to the device, the end-of-stream marker ends the worker with PlaybackDone.
\* With the sender gone and the queue drained the receive fails and the
\* worker ends.
PlaybackRecv ==
    /\ WorkersRun
    /\ worker_pc["pb"] = "running"
    /\ IF chan_pb # << >>
       THEN /\ chan_pb' = Tail(chan_pb)
            /\ IF Head(chan_pb) = "EOS"
               THEN /\ chan_status' = Append(chan_status, <<"PlaybackDone">>)
                    /\ worker_pc' = [worker_pc EXCEPT !["pb"] = "done"]
               ELSE UNCHANGED << chan_status, worker_pc >>
       ELSE /\ worker_pc["proc"] = "done"
            /\ worker_pc' = [worker_pc EXCEPT !["pb"] = "done"]
            /\ UNCHANGED << chan_pb, chan_status >>
    /\ UNCHANGED << workerFrame, chan_cap,
                    chan_command_cap, chan_pipeconf, barrier >>

(* ------------------------------------------------------------------ *)
(* The environment: control plane, signals, the config file             *)
(* ------------------------------------------------------------------ *)

envFrame == << mainVars, loudVars, spawned, pipeVars, stop_reason, exit_code, supLocals, blockVars,
               exitstate, workerVars, chan_status, chan_command_cap,
               chan_pipeconf, barrier, histVars >>

\* the supervisor rests in recv_timeout with nothing to receive
SupResting ==
    sup_pc = "recv" /\ chan_status = << >> /\ ~StatusDisconnected

\* the outer loop sleeps in wait mode with nothing to do
MainResting ==
    /\ sup_pc = "main"
    /\ ~IsSome(new_config_shared)
    /\ wait
    /\ signal_exit # ExitRequest_EXIT
    /\ ~signal_reload

\* an event of the environment while the engine is at a blocking call
EnvLive ==
    /\ sup_pc \in {"recv", "barrier", "join"} \/ MainResting
    /\ env_left > 0
    /\ env_left' = env_left - 1

\* where the event leaves the supervisor (the request words are set by then)
EnvSeen ==
    sup_pc' = IF SupResting
              THEN AfterRecv(signal_reload', is_starting, signal_exit')
              ELSE sup_pc

\* the control plane stores a config in the pending slot and asks for a reload
EnvSetConfig ==
    /\ EnvLive
    /\ \E c \in Configs : new_config_shared' = Some(c)
    /\ signal_reload' = TRUE
    /\ UNCHANGED << envFrame, config_file, signal_exit, active_config_shared,
                    prev_config_shared >>
    /\ EnvSeen

\* hangup signal or the control plane's reload command
EnvReload ==
    /\ EnvLive
    /\ signal_reload' = TRUE
    /\ UNCHANGED << envFrame, config_file, signal_exit, slotVars >>
    /\ EnvSeen

\* interrupt signal or the control plane's exit command
EnvExit ==
    /\ EnvLive
    /\ signal_exit' = ExitRequest_EXIT
    /\ UNCHANGED << envFrame, config_file, signal_reload, slotVars >>
    /\ EnvSeen

\* the control plane's stop command
EnvStop ==
    /\ EnvLive
    /\ signal_exit' = ExitRequest_STOP
    /\ UNCHANGED << envFrame, config_file, signal_reload, slotVars >>
    /\ EnvSeen

\* the file at the config path is edited
EnvEditFile ==
    /\ EnvLive
    /\ config_path
    /\ \E f \in FileContents : f # config_file /\ config_file' = f
    /\ UNCHANGED << envFrame, signalVars, slotVars >>
    /\ EnvSeen

(* ------------------------------------------------------------------ *)
(* Specification                                                        *)
(* ------------------------------------------------------------------ *)

Main == RunStart \/ RunRegisterFailed \/ MainNoConfig \/ MainExitRequested
        \/ MainReload \/ MainErr \/ MainExit \/ MainRestart

Supervisor ==
    \/ SupReloadErr \/ SupReloadParams \/ SupReloadDevices
    \/ SupReloadNone \/ SupExitRequested \/ SupStopRequested
    \/ SupJoin \/ SupDisconnected \/ SupPlaybackReady
    \/ SupCaptureReady \/ SupPlaybackReadyReleased \/ SupCaptureReadyReleased
    \/ SupPlaybackError \/ SupCaptureError \/ SupPlaybackFormatChange
    \/ SupCaptureFormatChange \/ SupFailureReleased \/ SupPlaybackDone
    \/ SupCaptureDone

Capture ==
    \/ CaptureReady \/ CaptureStartFailed
    \/ CaptureFailed \/ CaptureFormatChanged \/ CaptureCommand \/ CaptureChunk
    \/ CaptureEndOfInput \/ CaptureDone \/ CaptureDied

Processing ==
    \/ ProcessingBuilt \/ ProcessingChunk

Playback ==
    \/ PlaybackReady \/ PlaybackStartFailed
    \/ PlaybackFailed \/ PlaybackFormatChanged \/ PlaybackRecv

Environment == EnvSetConfig \/ EnvReload \/ EnvExit \/ EnvStop \/ EnvEditFile

Next == Main \/ Supervisor \/ Capture \/ Processing \/ Playback \/ Environment

Spec == Init /\ [][Next]_vars


\* The main thread is one sequential process that runs when it can; each
\* worker thread, once spawned, finishes its start-up (its device comes up or
\* fails to) and keeps taking the steps of its loop.  That devices fail,
\* inputs end and requests arrive is left to chance.
CaptureProgress ==
    CaptureReady \/ CaptureStartFailed \/ CaptureCommand \/ CaptureChunk
    \/ CaptureDone

PlaybackProgress == PlaybackReady \/ PlaybackStartFailed \/ PlaybackRecv

FairSpec ==
    /\ Spec
    /\ WF_vars(Main \/ Supervisor)
    /\ WF_vars(CaptureProgress)
    /\ WF_vars(Processing)
    /\ WF_vars(PlaybackProgress)

\* The engine started from a config file, its devices working, and left
\* alone but for the control plane, which stores up to MaxReloads configs in
\* the pending slot; the input may end.
ReloadInit ==
    InitEngine /\ config_path /\ ~wait /\ env_left = MaxReloads /\ LoudIdle

ReloadNext ==
    \/ RunStart \/ MainNoConfig \/ MainRestart
    \/ SupReloadErr \/ SupReloadParams \/ SupReloadDevices \/ SupReloadNone
    \/ SupJoin \/ SupPlaybackReady \/ SupCaptureReady
    \/ SupPlaybackReadyReleased \/ SupCaptureReadyReleased
    \/ SupPlaybackDone \/ SupCaptureDone
    \/ CaptureReady \/ CaptureCommand \/ CaptureChunk \/ CaptureEndOfInput
    \/ CaptureDone
    \/ Processing
    \/ PlaybackReady \/ PlaybackRecv
    \/ EnvSetConfig

ReloadSpec == ReloadInit /\ [][ReloadNext]_vars

\* The engine with working devices and an input that does not end, under up
\* to MaxRequests events of the control plane and the signals.
RequestInit == InitEngine /\ env_left = MaxRequests /\ LoudIdle

RequestNext ==
    \/ RunStart \/ MainNoConfig \/ MainExitRequested \/ MainReload
    \/ MainExit \/ MainRestart
    \/ SupReloadErr \/ SupReloadParams \/ SupReloadDevices \/ SupReloadNone
    \/ SupExitRequested \/ SupStopRequested \/ SupJoin
    \/ SupPlaybackReady \/ SupCaptureReady
    \/ SupPlaybackReadyReleased \/ SupCaptureReadyReleased
    \/ CaptureReady \/ CaptureCommand \/ CaptureChunk \/ CaptureDone
    \/ Processing
    \/ PlaybackReady \/ PlaybackRecv
    \/ Environment

RequestSpec == RequestInit /\ [][RequestNext]_vars

\* the steps of the main thread, and of a capture and a playback thread whose
\* devices work, in that engine
RequestMain ==
    \/ RunStart \/ MainNoConfig \/ MainExitRequested \/ MainReload
    \/ MainExit \/ MainRestart
    \/ SupReloadErr \/ SupReloadParams \/ SupReloadDevices \/ SupReloadNone
    \/ SupExitRequested \/ SupStopRequested \/ SupJoin
    \/ SupPlaybackReady \/ SupCaptureReady
    \/ SupPlaybackReadyReleased \/ SupCaptureReadyReleased

RequestCapture == CaptureReady \/ CaptureCommand \/ CaptureChunk \/ CaptureDone

RequestPlayback == PlaybackReady \/ PlaybackRecv

\* the same engine, every thread running when it can
RequestFairSpec ==
    /\ RequestSpec
    /\ WF_vars(RequestMain)
    /\ WF_vars(RequestCapture)
    /\ WF_vars(Processing)
    /\ WF_vars(RequestPlayback)

(* ------------------------------------------------------------------ *)
(* The loudness filter by itself                                        *)
(* ------------------------------------------------------------------ *)

\* A Loudness filter as from_config leaves it, the engine at rest.  The
\* pipeline calls process_waveform chunk after chunk, the control plane
\* writes the shared volume, a reload calls update_parameters.
LoudInit ==
    /\ InitEngine /\ config_path /\ ~wait /\ env_left = 0
    /\ processing_status \in [volume : Volumes]
    /\ loudness_conf \in LoudnessParameters
    /\ \E chunksize \in ChunkSizes, samplerate \in SampleRates :
          loudness = from_config(loudness_conf, chunksize, samplerate,
                                 processing_status)
    /\ waveform = NoWaveform
    /\ ramp_calls = None
    /\ volume_left = MaxVolumeChanges
    /\ update_left = MaxUpdates

\* process_waveform.  ramp_calls counts the calls that took the ramping
\* branch since a volume step started a ramp; it is None when no ramp was
\* started or ramptime_in_chunks was changed since.
ProcessWaveform ==
    LET shared_vol == processing_status.volume
        started == start_ramp(loudness, shared_vol)
        gained == apply_gain(started)
        shelved == apply_biquads(gained.self, gained.gain)
        counted == IF volume_changed(loudness, shared_vol)
                   THEN IF loudness.ramptime_in_chunks > 0 THEN Some(0) ELSE None
                   ELSE ramp_calls
    IN  /\ loudness' = shelved.self
        /\ waveform' = [branch |-> gained.branch, gain |-> gained.gain,
                        biquads |-> shelved.biquads]
        /\ ramp_calls' = IF IsSome(counted) /\ gained.branch = "ramp"
                         THEN Some(Unwrap(counted) + 1) ELSE counted
        /\ UNCHANGED << engineVars, processing_status, volume_left, update_left,
                        loudness_conf >>

\* the control plane writes the volume of the shared status
SetVolume ==
    /\ volume_left > 0
    /\ volume_left' = volume_left - 1
    /\ \E v \in Volumes :
          /\ v # processing_status.volume
          /\ processing_status' = [processing_status EXCEPT !.volume = v]
    /\ UNCHANGED << engineVars, loudness, waveform, ramp_calls, update_left,
                    loudness_conf >>

\* update_parameters, called for a changed Loudness config
UpdateParameters ==
    /\ update_left > 0
    /\ update_left' = update_left - 1
    /\ \E conf \in LoudnessParameters :
          /\ loudness_conf' = conf
          /\ loudness' = update_parameters(loudness, conf, processing_status)
    /\ ramp_calls' = IF loudness'.ramptime_in_chunks = loudness.ramptime_in_chunks
                     THEN ramp_calls ELSE None
    /\ UNCHANGED << engineVars, processing_status, waveform, volume_left >>

LoudNext == ProcessWaveform \/ SetVolume \/ UpdateParameters

LoudSpec == LoudInit /\ [][LoudNext]_vars

(* ------------------------------------------------------------------ *)
(* Reload                                                               *)
(* ------------------------------------------------------------------ *)

\* the supervisor is at the reload part of its loop and the load succeeds
\* with a config whose diff against the active one is in classes
ReloadOf(classes) ==
    /\ sup_pc = "reload"
    /\ signal_reload
    /\ NewConfig[1] = "Ok"
    /\ config_diff(active_config, NewConfig[2]) \in classes

\* one message, the class of the diff with the new config, was sent on the
\* pipeconfig channel
PipeconfSent ==
    chan_pipeconf' = Append(chan_pipeconf,
                            <<config_diff(active_config, NewConfig[2]), NewConfig[2]>>)

\* no Exit was sent, no worker was joined, run has not returned
NoTeardown ==
    /\ exit_sent' = exit_sent
    /\ chan_command_cap' = chan_command_cap
    /\ joined' = joined
    /\ sup_pc' \notin {"join", "returned"}

\* C1: a reload whose diff is FilterParameters or MixerParameters sends
\* exactly one (change, new config) message on the pipeconfig channel, leaves
\* the new config in the active-config slot and the pending slot empty, sends
\* no Exit, joins no worker, and run does not return (nor does the process
\* end).
C1_ParameterReloadApplied ==
    [][ReloadOf({"FilterParameters", "MixerParameters"})
        => /\ PipeconfSent
           /\ active_config' = NewConfig[2]
           /\ active_config_shared' = Some(NewConfig[2])
           /\ new_config_shared' = None
           /\ NoTeardown
           /\ sup_pc' # "terminated"]_vars

\* C2: outside the starting phase a reload whose diff is Devices sends Exit
\* to capture and starts joining playback, then capture; when run returns
\* from it both are joined in that order, the new config is in the pending
\* slot and the result is Restart; and the outer loop then enters run again
\* with that config as the active one.
C2_DevicesStep ==
    (ReloadOf({"Devices"}) /\ ~is_starting)
        => /\ exit_sent' = exit_sent + 1
           /\ worker_pc["cap"] # "done"
                => chan_command_cap' = Append(chan_command_cap, <<"Exit">>)
           /\ sup_pc' = "join"
           /\ sup_joins' = << "pb", "cap" >>
           /\ sup_h'.conf = NewConfig[2]
           /\ UNCHANGED << chan_pipeconf, active_config, slotVars >>

C2_DevicesReturn ==
    (sup_pc = "returned" /\ sup_h.kind = "Devices")
        => /\ joined = << "pb", "cap" >>
           /\ exit_sent = 1
           /\ new_config_shared = Some(sup_h.conf)
           /\ exitstate = "Restart"

\* C2 in full: the step of the Devices arm, the state in which run returns
\* from it, and the next entry of run with the new config as the active one
C2_DevicesReloadRestarts ==
    /\ [][C2_DevicesStep]_vars
    /\ []C2_DevicesReturn
    /\ \A c \in ValidConfigs :
          (ReloadOf({"Devices"}) /\ ~is_starting /\ NewConfig[2] = c)
              ~> (sup_h = NoHandler /\ active_config = c
                  /\ active_config_shared = Some(c))

\* a run has returned Restart from a Devices reload taken after start-up
C2_Witness ==
    /\ sup_pc = "returned"
    /\ sup_h.kind = "Devices"
    /\ ~is_starting
    /\ exitstate = "Restart"
    /\ new_config_shared = Some(ConfDevices)

C4_FailedReloadClearsPending ==
    [][(sup_pc = "reload" /\ signal_reload /\ NewConfig[1] = "Err")
        => /\ new_config_shared' = None
           /\ active_config' = active_config
           /\ active_config_shared' = active_config_shared
           /\ chan_pipeconf' = chan_pipeconf
           /\ NoTeardown
           /\ sup_pc' # "terminated"]_vars

(* ------------------------------------------------------------------ *)
(* Start-up                                                             *)
(* ------------------------------------------------------------------ *)

\* a chunk (not the end-of-stream marker) is in queue q
HoldsChunk(q) == \E i \in 1..Len(q) : q[i] = "chunk"

\* C5: a chunk is in the capture->processing or the processing->playback
\* queue only after the supervisor has received both PlaybackReady and
\* CaptureReady and the 4-party barrier has been released by its one wait;
\* so a run in which a worker failed before both were received never has a
\* chunk in either queue.
C5_NoChunkBeforeStart ==
    (HoldsChunk(chan_cap) \/ HoldsChunk(chan_pb))
        => /\ pb_ready
           /\ cap_ready
           /\ BarrierOpen
           /\ barrier_waits = 1
           /\ ~(sup_h.kind = "Failure" /\ is_starting)

\* a chunk has passed the processing worker and waits for playback
C5_Witness ==
    /\ HoldsChunk(chan_pb)
    /\ pb_ready
    /\ cap_ready
    /\ worker_pc["pb"] = "running"

\* the supervisor is past the barrier in a failure branch it entered while
\* the run was starting
FailedStartPastBarrier ==
    /\ sup_h.kind = "Failure"
    /\ is_starting
    /\ sup_pc \in {"join", "returned"}

\* C6: a failure message handled while the run is still starting makes the
\* supervisor wait on the barrier exactly once before it joins the peer; by
\* then the barrier has opened and no worker is left at it; and run
\* eventually returns Restart.
C6_FailedStartReleased ==
    FailedStartPastBarrier
        => /\ barrier_waits = 1
           /\ BarrierOpen
           /\ \A w \in Workers : worker_pc[w] \in {"running", "eos", "done"}
           /\ sup_pc = "returned" => (exitstate = "Restart" /\ Len(joined) = 1)

\* C6 in full: one barrier wait and every worker released before the join,
\* and from the barrier wait of the failure arm run eventually returns
\* Restart
C6_FailedStartReturns ==
    /\ []C6_FailedStartReleased
    /\ (sup_pc = "barrier" /\ sup_h.kind = "Failure")
          ~> (sup_pc = "returned" /\ exitstate = "Restart"
              /\ sup_h.kind = "Failure")

\* run has returned Restart from a failure met while starting
C6_Witness ==
    /\ FailedStartPastBarrier
    /\ sup_pc = "returned"
    /\ exitstate = "Restart"
    /\ barrier_waits = 1

\* C7: when the handler of the second of PlaybackReady and CaptureReady is
\* through, in either order of arrival, the supervisor has waited on the
\* barrier exactly once, has left the starting phase and stop_reason is None.
C7_BothReadyResetsStopReason ==
    [][(/\ sup_pc = "barrier"
        /\ sup_h.kind \in {"PlaybackReady", "CaptureReady"}
        /\ sup_pc' # "barrier")
        => /\ pb_ready' /\ cap_ready'
           /\ barrier_waits' = 1
           /\ ~is_starting'
           /\ stop_reason' = StopReason_None]_vars

(* ------------------------------------------------------------------ *)
(* Failures and the end of a run                                        *)
(* ------------------------------------------------------------------ *)

\* the reason each failure message must leave in stop_reason
MatchingReason(msg) ==
    CASE msg[1] = "PlaybackError" -> <<"PlaybackError", msg[2]>>
      [] msg[1] = "CaptureError" -> <<"CaptureError", msg[2]>>
      [] msg[1] = "PlaybackFormatChange" -> <<"PlaybackFormatChange", msg[2]>>
      [] msg[1] = "CaptureFormatChange" -> <<"CaptureFormatChange", msg[2]>>
      [] OTHER -> StopReason_None

\* C8: when run returns from the handler of PlaybackError(m),
\* CaptureError(m), PlaybackFormatChange(r) or CaptureFormatChange(r) it
\* returns Restart, stop_reason is the matching reason with the same m or r,
\* the pending slot is empty and the previous-config slot holds the config
\* that was active; for a playback-side message Exit was sent once and
\* capture, only capture, was joined; for a capture-side message no Exit was
\* sent and playback, only playback, was joined.
C8_FailureReturnsRestart ==
    (sup_pc = "returned" /\ sup_h.kind = "Failure")
        => /\ exitstate = "Restart"
           /\ stop_reason = MatchingReason(sup_h.msg)
           /\ sup_h.msg[1] \in FailureTypes
           /\ new_config_shared = None
           /\ prev_config_shared = Some(sup_h.conf)
           /\ sup_h.conf = active_config
           /\ sup_h.msg[1] \in PlaybackSide
                => (exit_sent = 1 /\ joined = << "cap" >>)
           /\ sup_h.msg[1] \in CaptureSide
                => (exit_sent = 0 /\ joined = << "pb" >>)

\* run has returned from a playback format change met while running
C8_Witness ==
    /\ sup_pc = "returned"
    /\ sup_h.kind = "Failure"
    /\ sup_h.msg = <<"PlaybackFormatChange", NewRate>>
    /\ stop_reason = <<"PlaybackFormatChange", NewRate>>
    /\ joined = << "cap" >>

\* C9: the handler of PlaybackDone, which only the end-of-stream marker
\* passed down by capture brings about, returns Restart with stop_reason =
\* Done, whatever stop_reason earlier runs left.
C9_EndOfStreamIsDone ==
    [][(/\ sup_pc = "recv"
        /\ chan_status # << >>
        /\ Head(chan_status)[1] = "PlaybackDone"
        /\ chan_status' = Tail(chan_status))
        => /\ sup_pc' = "returned"
           /\ exitstate' = "Restart"
           /\ stop_reason' = StopReason_Done]_vars

\* C10: a process that is not in wait mode and has ended after a run that
\* returned Restart from a PlaybackError or CaptureError has exit code 102.
C10_DeviceErrorExits102 ==
    (/\ exit_code # None
     /\ ~wait
     /\ sup_h.kind = "Failure"
     /\ sup_h.msg[1] \in {"PlaybackError", "CaptureError"}
     /\ exitstate = "Restart")
        => exit_code = Some(EXIT_PROCESSING_ERROR)

(* ------------------------------------------------------------------ *)
(* Exit requests and the outer loop                                     *)
(* ------------------------------------------------------------------ *)

\* the supervisor is at the exit part of its loop with request pending
ExitCheckOf(request) ==
    /\ sup_pc = "exitchk"
    /\ ~is_starting
    /\ signal_exit = request

\* a queue is filled to the depth of the run's config
Full(q) == Len(q) = queuelimit(active_config)

C11_ExitStep ==
    ExitCheckOf(ExitRequest_EXIT)
        => /\ signal_exit' = ExitRequest_NONE
           /\ exit_sent' = exit_sent + 1
           /\ worker_pc["cap"] # "done"
                => chan_command_cap' = Append(chan_command_cap, <<"Exit">>)
           /\ sup_pc' = "join"
           /\ sup_joins' = << "pb", "cap" >>
           /\ joined' = << >>

C11_ExitReturn ==
    (sup_pc \in {"returned", "terminated"} /\ sup_h.kind = "EXIT")
        => /\ joined = << "pb", "cap" >>
           /\ exit_sent = 1
           /\ exitstate = "Exit"
           /\ prev_config_shared = Some(active_config)
           /\ sup_pc = "terminated" => exit_code = Some(EXIT_OK)

\* C11: with signal_exit = EXIT outside the starting phase the supervisor
\* resets the request word, sends Exit to capture and joins playback, then
\* capture; run returns Exit and the process ends with exit code 0, also
\* when the playback queue is full at the time of the request.
C11_ExitTerminates ==
    /\ [][C11_ExitStep]_vars
    /\ []C11_ExitReturn
    /\ ExitCheckOf(ExitRequest_EXIT)
          ~> (sup_pc = "terminated" /\ exit_code = Some(EXIT_OK))
    /\ (ExitCheckOf(ExitRequest_EXIT) /\ Full(chan_pb) /\ Full(chan_cap))
          ~> (sup_pc = "terminated" /\ exit_code = Some(EXIT_OK)
              /\ sup_h.kind = "EXIT")

\* the exit request has been taken up with both queues full and all three
\* workers running
C11_Witness ==
    /\ sup_pc = "join"
    /\ sup_h.kind = "EXIT"
    /\ sup_joins = << "pb", "cap" >>
    /\ signal_exit = ExitRequest_NONE
    /\ Full(chan_pb)
    /\ Full(chan_cap)
    /\ \A w \in Workers : worker_pc[w] = "running"

\* the outer loop is in its wait loop: wait mode, pending slot empty
MainWaiting ==
    /\ sup_pc = "main"
    /\ wait
    /\ ~IsSome(new_config_shared)

C12_RestartStep ==
    (sup_pc = "returned" /\ exitstate = "Restart" /\ wait)
        => (sup_pc' = "main" /\ exit_code' = None)

C12_WaitStep ==
    MainWaiting
        => \/ /\ sup_pc' = "main"
              /\ exit_code' = None
              /\ UNCHANGED << supLocals, sup_h, worker_pc, active_config_shared >>
           \/ /\ signal_exit = ExitRequest_EXIT
              /\ sup_pc' = "terminated"
              /\ exit_code' = Some(EXIT_OK)

C12_RunStep ==
    (sup_pc = "main" /\ sup_pc' \notin {"main", "terminated"})
        => /\ IsSome(new_config_shared)
           /\ active_config' = Unwrap(new_config_shared)
           /\ active_config_shared' = new_config_shared
           /\ sup_h' = NoHandler

\* C12: after run has returned Restart with the pending slot empty, in wait
\* mode the outer loop neither enters run nor ends the process while the
\* slot stays empty, except that an EXIT request ends the process with code
\* 0; once the slot is filled the loop enters run with that config as the
\* active one.
C12_WaitsForConfig ==
    /\ [][C12_RestartStep /\ C12_WaitStep /\ C12_RunStep]_vars
    /\ \A c \in Configs :
          (sup_pc = "main" /\ wait /\ exitstate = "Restart"
           /\ new_config_shared = Some(c))
              ~> (sup_pc # "main" /\ sup_h = NoHandler /\ active_config = c)

\* the outer loop waits, after a run that returned Restart, with no config
C12_Witness ==
    /\ MainWaiting
    /\ exitstate = "Restart"
    /\ exit_code = None
    /\ active_config_shared = None
    /\ signal_exit # ExitRequest_EXIT

(* ------------------------------------------------------------------ *)
(* The active configuration                                             *)
(* ------------------------------------------------------------------ *)

\* run has been entered at least once and the process has not ended
EngineAlive ==
    /\ exit_code = None
    /\ sup_pc # "main" \/ exitstate # "none"

\* run is in progress, or has returned and its result is not yet taken
InRun == sup_pc \in {"recv", "reload", "exitchk", "barrier", "join", "returned"}

\* C13 as claimed: at every moment of the engine's life the active-config
\* slot is filled, and its value changes only at the start of a run or when
\* a parameter-level reload is applied.
C13_SlotNeverEmpty ==
    /\ [](EngineAlive => IsSome(active_config_shared))
    /\ [][active_config_shared' # active_config_shared
            => \/ sup_pc = "main"
               \/ ReloadOf({"Pipeline", "MixerParameters", "FilterParameters"})]_vars

\* C13 as amended: from the start of a run until main_process has taken its
\* result the active-config slot holds exactly the supervisor's active
\* config; between runs, also while the outer loop waits in wait mode, the
\* slot is empty; the slot is written only at the start of a run, when a
\* Pipeline, Mixer or Filter reload is applied (to the new config) and when
\* main_process empties it after run has returned.
C13_OneActiveWhileRunning ==
    /\ [](InRun => active_config_shared = Some(active_config))
    /\ [](sup_pc = "main" => active_config_shared = None)
    /\ [][active_config_shared' # active_config_shared
            => \/ sup_pc = "main" /\ sup_pc' # "main"
                    /\ active_config_shared' = new_config_shared
               \/ ReloadOf({"Pipeline", "MixerParameters", "FilterParameters"})
                    /\ active_config_shared' = Some(NewConfig[2])
               \/ sup_pc = "returned" /\ active_config_shared' = None]_vars

\* a filter reload has replaced the active config of a live run, in the
\* slot and in the supervisor alike
C13_Witness ==
    /\ sup_pc = "recv"
    /\ ~is_starting
    /\ active_config = ConfFilters
    /\ active_config_shared = Some(ConfFilters)
    /\ new_config_shared = None

(* ------------------------------------------------------------------ *)
(* The chunk queues                                                     *)
(* ------------------------------------------------------------------ *)

\* the queuelimit of the config the run's queues were made with
Depth == active_config.devices

\* q2 is q with one message sent to it
Sent(q, q2) == Len(q2) = Len(q) + 1 /\ SubSeq(q2, 1, Len(q)) = q

C14_QueueSteps ==
    sup_pc # "main"
        => /\ chan_cap' # chan_cap
                => \/ Sent(chan_cap, chan_cap') /\ Len(chan_cap) < Depth
                   \/ /\ chan_cap # << >>
                      /\ chan_cap' = Tail(chan_cap)
                      /\ worker_pc["pb"] # "done"
                           => chan_pb' = Append(chan_pb, Head(chan_cap))
           /\ chan_pb' # chan_pb
                => \/ Sent(chan_pb, chan_pb') /\ Len(chan_pb) < Depth
                   \/ /\ chan_pb # << >>
                      /\ chan_pb' = Tail(chan_pb)
                      /\ worker_pc["pb"] = "running"

\* C14: each of the two chunk queues holds at most queuelimit messages; a
\* message enters a queue only when a slot is free (a producer facing a full
\* queue takes no step), and a message leaves a queue only at its head and
\* into the hands of its consumer: what processing takes from the capture
\* queue goes into the playback queue while playback is alive, what leaves
\* the playback queue is taken by the running playback thread.
C14_QueuesBounded ==
    /\ [](InRun => (Len(chan_cap) <= Depth /\ Len(chan_pb) <= Depth))
    /\ [][C14_QueueSteps]_vars

\* both queues of a run with queuelimit 2 are full of chunks and capture,
\* still running, cannot send
C14_Witness ==
    /\ sup_pc = "recv"
    /\ Depth = 2
    /\ chan_cap = << "chunk", "chunk" >>
    /\ chan_pb = << "chunk", "chunk" >>
    /\ worker_pc["cap"] = "running"
    /\ ~ENABLED CaptureChunk

(* ------------------------------------------------------------------ *)
(* Parameter changes in the processing thread                           *)
(* ------------------------------------------------------------------ *)

\* the configs of the pipeline, oldest first: the one it works with, then
\* those of the messages it has not received yet
ConfChain == << pipeline >> \o [i \in 1..Len(chan_pipeconf) |-> chan_pipeconf[i][2]]

\* the processing thread takes a message from the pipeconfig channel
PipeconfReceived ==
    sup_pc # "main" /\ chan_pipeconf # << >> /\ chan_pipeconf' = Tail(chan_pipeconf)

C15_ProcessingStep ==
    /\ PipeconfReceived
         => /\ chan_cap # << >> /\ chan_cap' = Tail(chan_cap)
            /\ processed_with' = Some(pipeline)
            /\ pipeline' = Head(chan_pipeconf)[2]
    /\ sup_pc # "main" /\ pipeline' # pipeline => PipeconfReceived
    /\ sup_pc # "main" /\ processed_with' # processed_with
         => processed_with' = Some(pipeline)
    /\ sup_pc # "main" /\ chan_pipeconf' # chan_pipeconf
         => \/ PipeconfReceived
            \/ chan_pipeconf' = Append(chan_pipeconf,
                                       << config_diff(active_config, active_config'),
                                          active_config' >>)

\* C15: the processing thread changes the parameters of its pipeline only
\* when it takes a message from the pipeconfig channel, which it does at the
\* end of an iteration: the chunk of that iteration was processed with the old
\* parameters, every chunk is processed with the parameters in place when its
\* iteration began (so the next chunk with the new ones), and the messages
\* are received in the order the supervisor sent them, the last of them being
\* the supervisor's active config.
C15_ChangeBetweenChunks ==
    /\ [][C15_ProcessingStep]_vars
    /\ [](/\ ConfChain[Len(ConfChain)] = active_config
          /\ \A i \in 1..Len(chan_pipeconf) :
                chan_pipeconf[i][1] = config_diff(ConfChain[i], ConfChain[i + 1]))

\* two changes are queued while the processing thread, a chunk before it,
\* still runs with the parameters of the start
C15_Witness ==
    /\ Len(chan_pipeconf) = 2
    /\ chan_pipeconf[1][2] # chan_pipeconf[2][2]
    /\ pipeline = ConfBase
    /\ worker_pc["proc"] = "running"
    /\ chan_cap # << >> /\ Head(chan_cap) = "chunk"

(* ------------------------------------------------------------------ *)
(* The loudness ramp                                                    *)
(* ------------------------------------------------------------------ *)

\* the gain in dB of every sample of the last chunk is v
ConstantGain(w, v) ==
    w.branch = "constant" /\ \A i \in 1..Len(w.gain) : w.gain[i] = v

C16_Call ==
    ProcessWaveform /\ IsSome(ramp_calls')
        => IF ~volume_changed(loudness, processing_status.volume)
              /\ loudness.ramp_step = 0
           THEN /\ ConstantGain(waveform', loudness.current_volume)
                /\ loudness'.ramp_step = 0
                /\ ramp_calls' = ramp_calls
           ELSE /\ waveform'.branch = "ramp"
                /\ ramp_calls' =
                      Some(IF volume_changed(loudness, processing_status.volume)
                           THEN 1 ELSE loudness.ramp_step)

\* C16: after a step of the shared volume by more than 0.001 dB that finds
\* N = ramptime_in_chunks >= 1, and while the volume stays as it is and N is
\* not changed, the calls of process_waveform take the ramping branch with
\* ramp_step 1, 2, ..., N, one after the other; ramp_step is 0 exactly when N
\* calls have ramped, and every later call applies one constant gain.
C16_RampLength ==
    /\ [][C16_Call]_vars
    /\ [](IsSome(ramp_calls)
            => /\ loudness.ramptime_in_chunks >= 1
               /\ IF loudness.ramp_step = 0
                  THEN Unwrap(ramp_calls) = loudness.ramptime_in_chunks
                  ELSE /\ Unwrap(ramp_calls) = loudness.ramp_step - 1
                       /\ loudness.ramp_step <= loudness.ramptime_in_chunks)

\* a ramp of three chunks is over and the call after it applied a constant
\* gain
C16_Witness ==
    /\ loudness.ramptime_in_chunks = 3
    /\ ramp_calls = Some(3)
    /\ loudness.ramp_step = 0
    /\ waveform.branch = "constant"

\* a ramp started by a volume step has had its N chunks
RampOver ==
    /\ IsSome(ramp_calls)
    /\ loudness.ramp_step = 0
    /\ Unwrap(ramp_calls) = loudness.ramptime_in_chunks

\* C17: when the ramp of a volume step from V0 to V1 is over, the last sample
\* of the last chunk, be it the N-th ramp chunk or a chunk after it, was
\* multiplied by the gain of V1 dB, and current_volume equals target_volume.
C17_RampReachesTarget ==
    RampOver
        => /\ waveform.gain[Len(waveform.gain)] = loudness.target_volume
           /\ loudness.current_volume = loudness.target_volume

(* ------------------------------------------------------------------ *)
(* The shelves of the loudness filter                                   *)
(* ------------------------------------------------------------------ *)

C18_Call ==
    ProcessWaveform
        => IF QLeq(loudness'.reference_level, loudness'.current_volume)
           THEN /\ get_rel_boost(loudness'.current_volume,
                                 loudness'.reference_level) = Q(0, 1)
                /\ waveform'.biquads = << >>
                /\ loudness'.high_biquad.state = loudness.high_biquad.state
                /\ loudness'.low_biquad.state = loudness.low_biquad.state
           ELSE /\ Len(waveform'.biquads) = 2
                /\ waveform'.biquads[1][1] = "highshelf"
                /\ waveform'.biquads[2][1] = "lowshelf"
                /\ loudness'.high_biquad.state = waveform'.gain
                /\ loudness'.low_biquad.state = waveform'.gain

\* C18: a call of process_waveform after which current_volume is at or above
\* reference_level (the relative boost is 0) sends the buffer through neither
\* shelf and leaves the delay lines of both as they were: the buffer is the
\* input times the volume gain.  After every other call the buffer has gone
\* through the high shelf and then the low shelf.
C18_Bypass == [][C18_Call]_vars

\* shelves that have processed a chunk earlier are passed by in a call that
\* applies a constant gain at or above the reference level
C18_Witness ==
    /\ waveform.branch = "constant"
    /\ waveform.biquads = << >>
    /\ QLeq(loudness.reference_level, loudness.current_volume)
    /\ loudness.high_biquad.state # << >>
    /\ loudness.high_biquad.state # waveform.gain

\* the smaller and the larger of two fractions
QMin(x, y) == IF QLess(y, x) THEN y ELSE x
QMax(x, y) == IF QLess(x, y) THEN y ELSE x

\* the levels the filter has at hand: the shared volume, the volume it is at
\* and the two ends of its ramp
LevelsAtHand ==
    {processing_status.volume, loudness.current_volume, loudness.ramp_start,
     loudness.target_volume}

\* C19: get_rel_boost(level, reference) is (reference - level)/20 limited to
\* the range from 0 to 1, and of two levels the higher one never gets the
\* larger boost; checked for the reference level of the filter and every
\* level it has at hand.
C19_RelBoostClamped ==
    \A level \in LevelsAtHand :
        LET reference == loudness.reference_level
            rel == get_rel_boost(level, reference)
        IN  /\ rel = QMax(Q(0, 1), QMin(Q(1, 1), QDivInt(QSub(reference, level), 20)))
            /\ QLeq(Q(0, 1), rel) /\ QLeq(rel, Q(1, 1))
            /\ \A other \in LevelsAtHand :
                  QLeq(level, other) => QLeq(get_rel_boost(other, reference), rel)

\* a ramp chunk has ended more than 20 dB below the reference level, where
\* the limit of 1 acts, with another level at hand whose boost is between
\* the limits
C19_Witness ==
    /\ waveform.branch = "ramp"
    /\ QLess(Q(20, 1), QSub(loudness.reference_level, loudness.current_volume))
    /\ loudness.high_biquad.gain = loudness.high_boost
    /\ \E level \in LevelsAtHand :
          /\ QLess(Q(0, 1), get_rel_boost(level, loudness.reference_level))
          /\ QLess(get_rel_boost(level, loudness.reference_level), Q(1, 1))

(* ------------------------------------------------------------------ *)
(* Volume changes seen by the loudness filter                           *)
(* ------------------------------------------------------------------ *)

\* level a is nearer to level v than level b is
Nearer(a, b, v) == QLess(QAbs(QSub(v, a)), QAbs(QSub(v, b)))

\* the call takes up the shared volume as its target
C20_Target ==
    ProcessWaveform /\ volume_changed(loudness, processing_status.volume)
        => loudness'.target_volume = processing_status.volume

\* a call that finds no change leaves the ramp as it is: its ends stay, an
\* idle filter stays idle at its volume, a ramp under way goes on
C20_Below ==
    ProcessWaveform /\ ~volume_changed(loudness, processing_status.volume)
        => /\ loudness'.target_volume = loudness.target_volume
           /\ loudness'.ramp_start = loudness.ramp_start
           /\ loudness.ramp_step = 0
                => /\ loudness'.ramp_step = 0
                   /\ loudness'.current_volume = loudness.current_volume
           /\ loudness.ramp_step # 0 => loudness'.ramp_step # 1

\* the chunk of the call that takes up a change ends nearer to the new
\* volume than the filter was
C20_Moves ==
    ProcessWaveform /\ volume_changed(loudness, processing_status.volume)
       /\ loudness.current_volume # processing_status.volume
        => Nearer(waveform'.gain[Len(waveform'.gain)], loudness.current_volume,
                  processing_status.volume)

\* C20: a call of process_waveform that finds the shared volume more than
\* 0.001 dB away from target_volume, a ramp being under way or not, sets
\* target_volume to the shared value and the gain of its chunk moves towards
\* that value; a call that finds a difference of at most 0.001 dB changes
\* nothing of the ramp.
C20_PickedUpAtOnce == [][C20_Target /\ C20_Moves /\ C20_Below]_vars

(* ------------------------------------------------------------------ *)
(* The start of run                                                     *)
(* ------------------------------------------------------------------ *)

\* main_process enters run
RunEntered == sup_pc = "main" /\ sup_pc' \in {"recv", "returned"}

C21_Step ==
    /\ RunEntered
         => /\ IsSome(new_config_shared)
            /\ active_config' = Unwrap(new_config_shared)
            /\ active_config_shared' = new_config_shared
            /\ new_config_shared' = None
            /\ signal_reload' = FALSE
            /\ signal_exit' = ExitRequest_NONE
            /\ spawned' = << "proc", "pb", "cap" >>
            /\ \A w \in Workers : worker_pc'[w] = "init"
    /\ (\E w \in Workers : worker_pc'[w] = "init" /\ worker_pc[w] # "init")
         => RunEntered

\* C21: entering run with a config in the pending slot makes that config the
\* active config of the run and the value of the active-config slot, empties
\* the pending slot and resets the reload flag and the exit-request word; the
\* workers of the run, spawned in the order processing, playback, capture,
\* begin with the flags reset, and workers are spawned nowhere else.
C21_RunStart == [][C21_Step]_vars

\* a later run has just been entered: its workers are spawned and have done
\* nothing, the config stored while the engine was down is the active one
C21_Witness ==
    /\ sup_pc = "recv"
    /\ is_starting
    /\ \A w \in Workers : worker_pc[w] = "init"
    /\ spawned = << "proc", "pb", "cap" >>
    /\ IsSome(prev_config_shared)
    /\ active_config # ConfBase
    /\ active_config_shared = Some(active_config)
    /\ new_config_shared = None
    /\ ~signal_reload

(* ------------------------------------------------------------------ *)
(* Exit requests and the starting phase                                 *)
(* ------------------------------------------------------------------ *)

ExitKinds == {"EXIT", "STOP"}

\* a step of the program, the supervisor inside run
ProgramStep == sup_pc # "main" /\ env_left' = env_left

\* in the starting phase the request word is not written, and no handler of
\* an exit request is entered
C22_Starting ==
    ProgramStep /\ is_starting
        => /\ signal_exit' = signal_exit
           /\ sup_h'.kind \notin ExitKinds

\* the step that leaves the starting phase with a request standing goes to
\* the top of the loop: to the reload part when a reload is asked for, else
\* to the exit check
C22_Left ==
    is_starting /\ ~is_starting' /\ ExitApplies(FALSE, signal_exit)
        => sup_pc' = IF signal_reload THEN "reload" ELSE "exitchk"

\* the exit check acts on the request
C22_Check ==
    sup_pc = "exitchk"
        => /\ sup_pc' = "join"
           /\ sup_h'.kind = IF signal_exit = ExitRequest_EXIT THEN "EXIT" ELSE "STOP"
           /\ signal_exit' = ExitRequest_NONE
           /\ exit_sent' = exit_sent + 1

\* the reload part of an iteration with a request standing is followed by the
\* exit check
C22_Reload ==
    sup_pc = "reload" /\ ExitApplies(is_starting, signal_exit)
        => sup_pc' = "exitchk"

\* the same, but for a Devices reload, which returns from run with the
\* request still in signal_exit
C22_ReloadUnlessDevices ==
    sup_pc = "reload" /\ ExitApplies(is_starting, signal_exit)
        => \/ sup_pc' = "exitchk"
           \/ /\ ReloadOf({"Devices"})
              /\ sup_pc' = "join"
              /\ sup_h'.kind = "Devices"
              /\ signal_exit' = signal_exit

C22_NoHandlerWhileStarting ==
    /\ sup_h.kind \in ExitKinds => ~is_starting
    /\ sup_pc = "exitchk" => ~is_starting

C23_StopStep ==
    ExitCheckOf(ExitRequest_STOP)
        => /\ signal_exit' = ExitRequest_NONE
           /\ exit_sent' = exit_sent + 1
           /\ worker_pc["cap"] # "done"
                => chan_command_cap' = Append(chan_command_cap, <<"Exit">>)
           /\ sup_pc' = "join"
           /\ sup_joins' = << "pb", "cap" >>
           /\ joined' = << >>
           /\ UNCHANGED << new_config_shared, prev_config_shared >>

C23_StopReturn ==
    (sup_h.kind = "STOP" /\ sup_pc = "join" /\ sup_pc' # "join")
        => /\ joined' = << "pb", "cap" >>
           /\ worker_pc["pb"] = "done"
           /\ worker_pc["cap"] = "done"
           /\ new_config_shared' = None
           /\ prev_config_shared' = Some(active_config)
           /\ sup_pc' = "returned"
           /\ exitstate' = "Restart"

C23_StopStays ==
    (sup_h.kind = "STOP" /\ sup_pc = "returned" /\ wait)
        => /\ sup_pc' = "main"
           /\ exit_code' = None
           /\ active_config_shared' = None
           /\ new_config_shared' = None

\* C23: with signal_exit = STOP outside the starting phase the supervisor
\* resets the request word, sends Exit to capture and joins playback, then
\* capture; it empties the pending slot, stores the active config in the
\* previous-config slot and run returns Restart; in wait mode the outer loop
\* then waits, the process alive, with no playback or capture thread.
C23_StopRestarts ==
    /\ [][C23_StopStep /\ C23_StopReturn /\ C23_StopStays]_vars
    /\ ExitCheckOf(ExitRequest_STOP)
          ~> (sup_pc = "returned" /\ sup_h.kind = "STOP"
              /\ exitstate = "Restart")
    /\ (ExitCheckOf(ExitRequest_STOP) /\ wait)
          ~> (MainWaiting /\ exit_code = None
              /\ worker_pc["pb"] = "done" /\ worker_pc["cap"] = "done")

\* in wait mode the outer loop waits after a run that a stop request ended
C23_Witness ==
    /\ MainWaiting
    /\ sup_h.kind = "STOP"
    /\ exitstate = "Restart"
    /\ exit_code = None
    /\ joined = << "pb", "cap" >>
    /\ prev_config_shared = Some(active_config)

(* ------------------------------------------------------------------ *)
(* A reload that changes nothing                                        *)
(* ------------------------------------------------------------------ *)

\* the reload at hand yields a valid config equal to the active one
ReloadOfNone ==
    /\ sup_pc = "reload"
    /\ signal_reload
    /\ NewConfig[1] = "Ok"
    /\ config_diff(active_config, NewConfig[2]) = "None"

\* C24: a reload that yields a valid config whose diff against the active
\* config is None empties the pending slot and changes nothing else: the
\* active config and its slot, the previous-config slot, the pipeconfig,
\* command and status channels, the audio queues, the worker threads, the
\* barrier and the starting-phase flags stay as they are, no teardown is
\* started and the loop goes on.
C24_NoneReloadKeepsAll ==
    [][ReloadOfNone
        => /\ new_config_shared' = None
           /\ sup_pc' \in {"exitchk", "recv"}
           /\ UNCHANGED << active_config, active_config_shared,
                           prev_config_shared, chan_pipeconf,
                           chan_command_cap, chan_status, workerVars,
                           spawned, pipeVars, barrier, is_starting, pb_ready,
                           cap_ready, blockVars, histVars, signal_exit,
                           stop_reason, exit_code, exitstate >>]_vars

\* a reload is at hand, in a run with all workers running, whose pending
\* config equals the active one, itself the result of an earlier reload
C24_Witness ==
    /\ ReloadOfNone
    /\ ~is_starting
    /\ new_config_shared = Some(active_config)
    /\ active_config = ConfFilters
    /\ \A w \in Workers : worker_pc[w] = "running"

(* ------------------------------------------------------------------ *)
(* The volume-change step of the loudness filter                        *)
(* ------------------------------------------------------------------ *)

\* the call started a ramp at its first chunk: the ramp runs from the volume
\* the filter was at to the shared one, the chunk is its first
RampStarted ==
    /\ loudness'.ramp_start = loudness.current_volume
    /\ loudness'.target_volume = processing_status.volume
    /\ waveform'.branch = "ramp"
    /\ waveform'.gain[1] = loudness.current_volume
    /\ loudness'.ramp_step = IF loudness.ramptime_in_chunks = 1 THEN 0 ELSE 2

\* the call took the shared volume over at once
ChangedAtOnce ==
    /\ loudness'.current_volume = processing_status.volume
    /\ loudness'.target_volume = processing_status.volume
    /\ loudness'.ramp_step = 0
    /\ loudness'.ramp_start = loudness.ramp_start
    /\ ConstantGain(waveform', processing_status.volume)

\* ramptime_in_chunks is the configured ramp_time in chunks, rounded
C25_Chunks ==
    loudness.ramptime_in_chunks =
        Round(loudness_conf.ramp_time * loudness.samplerate,
              1000 * loudness.chunksize)

\* C25 as stated: a call of process_waveform that finds the shared volume
\* more than 0.001 dB away from target_volume starts a ramp for every
\* configured ramp_time > 0 and takes the volume over at once only for
\* ramp_time = 0.
C25_RampUnlessZeroTime ==
    [][ProcessWaveform /\ volume_changed(loudness, processing_status.volume)
        => IF loudness_conf.ramp_time > 0 THEN RampStarted
           ELSE ChangedAtOnce]_vars

\* C25 as amended: such a call starts a ramp when ramptime_in_chunks, the
\* configured ramp_time divided by the duration of a chunk and rounded, is
\* above 0, and takes the volume over at once when it is 0, which is the
\* case for ramp_time = 0 and for every ramp_time below half a chunk.
C25_RampUnlessZeroChunks ==
    /\ []C25_Chunks
    /\ [][ProcessWaveform /\ volume_changed(loudness, processing_status.volume)
          => IF loudness.ramptime_in_chunks > 0 THEN RampStarted
             ELSE ChangedAtOnce]_vars

\* a filter configured with a ramp_time above 0 has taken a changed volume
\* over at once
C25_Witness ==
    /\ loudness_conf.ramp_time > 0
    /\ loudness.ramptime_in_chunks = 0
    /\ volume_left = MaxVolumeChanges - 1
    /\ update_left = MaxUpdates
    /\ waveform.branch = "constant"
    /\ loudness.current_volume = processing_status.volume
    /\ loudness.target_volume = processing_status.volume

(* ------------------------------------------------------------------ *)
(* The shelf gains of the loudness filter                               *)
(* ------------------------------------------------------------------ *)

\* rel(current_volume, reference_level)
RelBoostNow == get_rel_boost(loudness.current_volume, loudness.reference_level)

\* C26: after every call of process_waveform or update_parameters the
\* coefficients of the high shelf and of the low shelf are those of the gains
\* rel(current_volume, reference_level) * high_boost and
\* rel(current_volume, reference_level) * low_boost, for the parameters the
\* filter was given last.
C26_ShelfGainsFollowVolume ==
    /\ loudness.reference_level = loudness_conf.reference_level
    /\ loudness.high_boost = loudness_conf.high_boost
    /\ loudness.low_boost = loudness_conf.low_boost
    /\ loudness.high_biquad.gain = QMul(RelBoostNow, loudness.high_boost)
    /\ loudness.low_biquad.gain = QMul(RelBoostNow, loudness.low_boost)

(* ------------------------------------------------------------------ *)
(* The ramp counter of the loudness filter                              *)
(* ------------------------------------------------------------------ *)

\* the last call left its chunk without a volume gain
NoGainApplied == waveform.branch = "none"

\* C27: after any sequence of process_waveform and update_parameters calls
\* ramp_step is between 0 and ramptime_in_chunks, and every call of
\* process_waveform has multiplied its chunk by a volume gain, in the
\* constant-gain branch or in the ramp branch.
C27_RampStepInRange ==
    /\ 0 <= loudness.ramp_step
    /\ loudness.ramp_step <= loudness.ramptime_in_chunks
    /\ waveform.branch \in {"new", "constant", "ramp"}

(* ------------------------------------------------------------------ *)
(* Joins and the startup barrier                                        *)
(* ------------------------------------------------------------------ *)

\* the supervisor is in a join, not having been to the barrier of this run,
\* and a worker of the run is inside barrier.wait()
JoinBehindBarrier ==
    /\ sup_pc = "join"
    /\ "sup" \notin barrier
    /\ \E w \in Workers : worker_pc[w] \in {"barrier", "barrier_failed"}

\* C28: the supervisor does not stay for ever in a join while a worker of
\* the run waits at the startup barrier for it; a Devices reload handled
\* while the run is starting ends with run returning Restart.
C28_JoinNeverStuck ==
    /\ JoinBehindBarrier ~> (sup_pc # "join")
    /\ (sup_pc = "join" /\ sup_h.kind = "Devices" /\ is_starting)
          ~> (sup_pc = "returned" /\ exitstate = "Restart")

(* ------------------------------------------------------------------ *)
(* Exit requests are kept                                               *)
(* ------------------------------------------------------------------ *)

\* C29: once signal_exit is EXIT, whenever it was set, the process ends with
\* exit code 0.
C29_ExitNeverLost ==
    (signal_exit = ExitRequest_EXIT)
        ~> (sup_pc = "terminated" /\ exit_code = Some(EXIT_OK))

(* ------------------------------------------------------------------ *)
(* Only validated configs run                                           *)
(* ------------------------------------------------------------------ *)

\* C30: the config run has taken as the active one, with which it spawned
\* its workers, has passed validation, whatever the control plane has
\* written into the pending slot and whenever.
C30_OnlyValidatedConfigsRun ==
    /\ IsSome(active_config_shared)
          => validate_config(Unwrap(active_config_shared))
    /\ spawned # << >>
          => (validate_config(active_config) /\ validate_config(pipeline))

(* ------------------------------------------------------------------ *)
(* Workers left behind                                                  *)
(* ------------------------------------------------------------------ *)

\* a worker thread spawned by the run has not ended
LeftBehind(w) == spawned # << >> /\ worker_pc[w] # "done"

\* C31: when run has returned after spawning workers, by whatever path, every
\* worker of that run has ended: none is running, starting or inside
\* barrier.wait(), so that the next run does not spawn workers beside them.
C31_NoWorkerLeftBehind ==
    sup_pc = "returned" => \A w \in Workers : ~LeftBehind(w)

(* ------------------------------------------------------------------ *)
(* Continuity of the gain                                               *)
(* ------------------------------------------------------------------ *)

\* |target_volume - ramp_start| / (N * chunksize) of filter self
SampleStep(self) ==
    QDivInt(QAbs(QSub(self.target_volume, self.ramp_start)),
            self.ramptime_in_chunks * self.chunksize)

\* gains a and b are at most one sample step of filter self apart
Close(a, b, self) == QLeq(QAbs(QSub(b, a)), SampleStep(self))

C32_Call ==
    (ProcessWaveform /\ update_left = MaxUpdates
     /\ loudness.ramptime_in_chunks >= 1)
        => /\ \A i \in 1..(Len(waveform'.gain) - 1) :
                 Close(waveform'.gain[i], waveform'.gain[i + 1], loudness')
           /\ waveform.branch # "new"
                 => Close(waveform.gain[Len(waveform.gain)], waveform'.gain[1],
                          loudness')

\* C32: with the parameters of the filter as from_config got them and
\* N = ramptime_in_chunks >= 1, the gains in dB of two samples that follow
\* each other, in one chunk or the last of a chunk and the first of the next,
\* are never further apart than |target_volume - ramp_start| / (N * chunksize),
\* whatever the shared volume does between the calls.
C32_GainContinuous == [][C32_Call]_vars

\* a ramp was started again from a level inside an earlier ramp and is under
\* way
C32_Witness ==
    /\ update_left = MaxUpdates
    /\ loudness.ramptime_in_chunks >= 2
    /\ loudness.chunksize = 2
    /\ waveform.branch = "ramp"
    /\ loudness.ramp_step >= 2
    /\ loudness.ramp_start \notin Volumes
    /\ volume_left = 0

====
